---- MODULE Spec2Model ----
(***************************************************************************)
(* Call-session controller of the outbound voice agent (src/agent.py).     *)
(*                                                                         *)
(* The session is a cooperative asyncio task tree: the entrypoint          *)
(* coroutine, the silence monitor task it starts, the tool coroutines the  *)
(* dialogue generator invokes, and the event callbacks of the agent.       *)
(* Every action below is one run of a coroutine between two awaits.        *)
(*                                                                         *)
(* Time is counted in ticks of half a second, the largest unit in which    *)
(* every delay of the program (0.5 s, 1 s, 2 s, 2.5 s, 4 s, 10 s, 15 s,      *)
(* 180 s) is a whole number.  asyncio.sleep(d) is a count-down timer that   *)
(* the Tick action decrements; a task whose timer reached 0 runs before    *)
(* time advances again.  Awaits on collaborators (telephony gateway,       *)
(* dialogue generator, audio output) return after an arbitrary delay.      *)
(***************************************************************************)
EXTENDS Integers, Sequences, FiniteSets, TLC

None == "None"

\* phone_number is absent from dial_info
NoPhone == <<"None">>

\* last_user_speech_time is None
NoTime == 0 - 1

(***************************************************************************)
(* Timing configuration, in ticks.                                         *)
(***************************************************************************)
TicksPerSecond == 2

SILENCE_CHECK_INTERVAL == (25 * TicksPerSecond) \div 10   \* 2.5 s
USER_SILENCE_THRESHOLD == 15 * TicksPerSecond
SECOND_CHECK_WAIT_TIME == 10 * TicksPerSecond
EMERGENCY_SILENCE == 180 * TicksPerSecond
GOODBYE_PLAYOUT_WAIT == 2 * TicksPerSecond
END_CALL_DELAY == 4 * TicksPerSecond
TRACK_PUBLISH_WAIT == (5 * TicksPerSecond) \div 10         \* 0.5 s
monitor_interval == 1 * TicksPerSecond
max_monitor == 5 * TicksPerSecond
max_retries == 3
retry_delay == 2 * TicksPerSecond
MIC_WAIT_ROUNDS == 10

(***************************************************************************)
(* Bounds of the model.                                                    *)
(***************************************************************************)
\* elapsed user silence saturates here (above every threshold it is compared with)
MaxAge == 362
\* longest destination tried (longer than the longest usual length, 16)
MaxPhoneLen == 17
\* every string over PhoneChars up to this length is tried as a destination
MaxShortPhone == 3
\* user turns per session
MaxTurns == 2
\* longest utterance
MaxTextLen == 3
\* delete_room calls after which the dialogue generator invokes no further tool
MaxDeleteCalls == 2
\* value of silence_check_count from which the dialogue generator stops
\* invoking check_if_user_still_there
MaxSilenceChecks == 3

Min(a, b) == IF a < b THEN a ELSE b

(***************************************************************************)
(* Strings are sequences of one-character strings.                         *)
(***************************************************************************)
Digits == {"0", "1", "2", "3", "4", "5", "6", "7", "8", "9"}

\* str.isdigit(): non-empty and every character a digit
IsDigitStr(s) == Len(s) > 0 /\ \A i \in 1..Len(s) : s[i] \in Digits

\* str.startswith('+')
StartsWithPlus(s) == Len(s) > 0 /\ s[1] = "+"

\* phone_number[1:]
Tail1(s) == IF Len(s) = 0 THEN << >> ELSE SubSeq(s, 2, Len(s))

PhoneChars == {"+", "1", "a"}

SeqsUpTo(S, n) == UNION {[1..k -> S] : k \in 0..n}

PlainPhone(n) == [i \in 1..n |-> IF i = 1 THEN "+" ELSE "1"]

\* lengths around the limits of the length check (10 and 16)
PhoneLengths == {9, 10, 16, MaxPhoneLen}

\* the destinations tried: every short string, and "+1...1" of the lengths
\* above with at most one character replaced
PhoneNumbers ==
    SeqsUpTo(PhoneChars, MaxShortPhone)
    \cup {PlainPhone(n) : n \in PhoneLengths}
    \cup UNION {{[PlainPhone(n) EXCEPT ![k] = c] : k \in 1..n, c \in PhoneChars}
                : n \in PhoneLengths}

ValidPhone == PlainPhone(12)

(***************************************************************************)
(* Job metadata: absent, a JSON object, text the regex repair turns into   *)
(* an object, text that stays unparsable, or JSON that is not an object.   *)
(***************************************************************************)
MetadataKinds == {"absent", "object", "repairable", "garbage", "nonobject"}

TransferValues == {"absent", "empty", "set"}

Meta(kind, phone, transfer) ==
    [kind |-> kind, phone_number |-> phone, transfer_to |-> transfer]

EmptyDialInfo == [phone_number |-> NoPhone, transfer_to |-> "absent"]

VARIABLES
    metadata,               \* ctx.job.metadata
    outbound_trunk_id,      \* SIP_OUTBOUND_TRUNK_ID is set
    dial_info,              \* agent.dial_info
    entry_pc,               \* position of the entrypoint coroutine
    entry_timer,            \* remaining ticks of the entrypoint's sleep
    entry_exc,              \* exception that left the entrypoint's try body
    attempt,                \* dial attempt number (loop variable)
    mic_iter,               \* rounds waited for the microphone track (loop variable)
    monitor_elapsed,        \* post-greeting activity wait, in ticks (loop variable)
    create_sip_calls,       \* create_sip_participant calls issued
    in_room,                \* the remote participant is in the room
    disconnected_future,    \* the entrypoint's disconnected_future is resolved
    room_deleted,           \* the gateway has torn the room down
    participant,            \* agent.participant is set
    introduction_completed, \* agent.introduction_completed
    silence_check_count,    \* agent.silence_check_count
    last_user_speech_age,   \* loop.time() - agent.last_user_speech_time, or NoTime
    is_agent_speaking,      \* agent.is_agent_speaking
    user_turn_count,        \* agent.user_turn_count
    topics_discussed,       \* agent.topics_discussed
    last_message,           \* text of the last completed user turn
    is_just_hello,          \* greeting classification logged by the last user turn
    silence_monitor_task,   \* agent.silence_monitor_task: None, running, cancelled, done
    monitor_pc,             \* position of monitor_silence
    monitor_timer,          \* remaining ticks of the monitor's sleep
    hangup_in_progress,     \* local flag of monitor_silence
    goodbye_requests,       \* goodbye generate_reply calls issued by the monitor
    monitor_hangups,        \* hangup() invocations made by the monitor
    delete_room_calls,      \* delete_room calls issued
    end_call_pc,            \* position of the end_call coroutine
    end_call_timer,         \* remaining ticks of end_call's sleep
    dam_pc,                 \* position of detected_answering_machine
    transfer_pc,            \* position of transfer_call
    check_pc,               \* position of check_if_user_still_there
    check_timer,            \* remaining ticks of its wait for a response
    first_check_age,        \* ticks the level has been 1 since the monitor raised it, at most SECOND_CHECK_WAIT_TIME
    tool_result             \* tool and result (return value or exception) of the last finished tool call

vars ==
    <<metadata, outbound_trunk_id, dial_info, entry_pc, entry_timer, entry_exc,
      attempt, mic_iter, monitor_elapsed, create_sip_calls, in_room,
      disconnected_future, room_deleted, participant, introduction_completed,
      silence_check_count, last_user_speech_age, is_agent_speaking,
      user_turn_count, topics_discussed, last_message, is_just_hello,
      silence_monitor_task, monitor_pc, monitor_timer, hangup_in_progress,
      goodbye_requests, monitor_hangups, delete_room_calls, end_call_pc,
      end_call_timer, dam_pc, transfer_pc, check_pc, check_timer,
      first_check_age, tool_result>>

(***************************************************************************)
(* State after construction: SuccessCoachAgent.__init__ and the start of   *)
(* the entrypoint.                                                         *)
(***************************************************************************)
InitState ==
    /\ dial_info = EmptyDialInfo
    /\ entry_pc = "parse"
    /\ entry_timer = 0
    /\ entry_exc = None
    /\ attempt = 0
    /\ mic_iter = 0
    /\ monitor_elapsed = 0
    /\ create_sip_calls = 0
    /\ in_room = FALSE
    /\ disconnected_future = FALSE
    /\ room_deleted = FALSE
    /\ participant = FALSE
    /\ introduction_completed = FALSE
    /\ silence_check_count = 0
    /\ last_user_speech_age = NoTime
    /\ is_agent_speaking = FALSE
    /\ user_turn_count = 0
    /\ topics_discussed = << >>
    /\ last_message = << >>
    /\ is_just_hello = FALSE
    /\ silence_monitor_task = None
    /\ monitor_pc = "idle"
    /\ monitor_timer = 0
    /\ hangup_in_progress = FALSE
    /\ goodbye_requests = 0
    /\ monitor_hangups = 0
    /\ delete_room_calls = 0
    /\ end_call_pc = "idle"
    /\ end_call_timer = 0
    /\ dam_pc = "idle"
    /\ transfer_pc = "idle"
    /\ check_pc = "idle"
    /\ check_timer = 0
    /\ first_check_age = NoTime
    /\ tool_result = [tool |-> None, result |-> None]

(***************************************************************************)
(* Utterance text: str.lower, str.strip, substring and prefix tests.       *)
(***************************************************************************)
LowerChar(c) ==
    CASE c = "A" -> "a"
      [] c = "B" -> "b"
      [] c = "C" -> "c"
      [] c = "D" -> "d"
      [] c = "E" -> "e"
      [] c = "F" -> "f"
      [] c = "G" -> "g"
      [] c = "H" -> "h"
      [] c = "I" -> "i"
      [] c = "J" -> "j"
      [] c = "K" -> "k"
      [] c = "L" -> "l"
      [] c = "M" -> "m"
      [] c = "N" -> "n"
      [] c = "O" -> "o"
      [] c = "P" -> "p"
      [] c = "Q" -> "q"
      [] c = "R" -> "r"
      [] c = "S" -> "s"
      [] c = "T" -> "t"
      [] c = "U" -> "u"
      [] c = "V" -> "v"
      [] c = "W" -> "w"
      [] c = "X" -> "x"
      [] c = "Y" -> "y"
      [] c = "Z" -> "z"
      [] OTHER -> c

Lower(s) == [i \in 1..Len(s) |-> LowerChar(s[i])]

Whitespace == {" ", "\t", "\n"}

RECURSIVE LStrip(_)
LStrip(s) == IF Len(s) > 0 /\ s[1] \in Whitespace THEN LStrip(Tail(s)) ELSE s

RECURSIVE RStrip(_)
RStrip(s) ==
    IF Len(s) > 0 /\ s[Len(s)] \in Whitespace THEN RStrip(SubSeq(s, 1, Len(s) - 1)) ELSE s

Strip(s) == RStrip(LStrip(s))

StartsWith(s, p) == Len(p) <= Len(s) /\ SubSeq(s, 1, Len(p)) = p

EndsWith(s, p) == Len(p) <= Len(s) /\ SubSeq(s, Len(s) - Len(p) + 1, Len(s)) = p

\* keyword in text
Contains(s, k) == \E i \in 1..(Len(s) - Len(k) + 1) : SubSeq(s, i, i + Len(k) - 1) = k

topics_order == <<"courses", "pricing", "duration", "placement", "eligibility">>

topics_keywords ==
    [courses |->
        {<<"c", "o", "u", "r", "s", "e">>,
         <<"p", "r", "o", "g", "r", "a", "m">>,
         <<"t", "r", "a", "i", "n", "i", "n", "g">>,
         <<"c", "u", "r", "r", "i", "c", "u", "l", "u", "m">>},
     pricing |->
        {<<"c", "o", "s", "t">>,
         <<"p", "r", "i", "c", "e">>,
         <<"f", "e", "e">>,
         <<"p", "a", "y", "m", "e", "n", "t">>,
         <<"a", "f", "f", "o", "r", "d">>},
     duration |->
        {<<"l", "o", "n", "g">>,
         <<"d", "u", "r", "a", "t", "i", "o", "n">>,
         <<"t", "i", "m", "e">>,
         <<"m", "o", "n", "t", "h", "s">>,
         <<"w", "e", "e", "k", "s">>},
     placement |->
        {<<"j", "o", "b">>,
         <<"p", "l", "a", "c", "e", "m", "e", "n", "t">>,
         <<"c", "a", "r", "e", "e", "r">>,
         <<"h", "i", "r", "i", "n", "g">>,
         <<"s", "a", "l", "a", "r", "y">>},
     eligibility |->
        {<<"e", "l", "i", "g", "i", "b", "l", "e">>,
         <<"q", "u", "a", "l", "i", "f", "i", "c", "a", "t", "i", "o", "n">>,
         <<"r", "e", "q", "u", "i", "r", "e", "m", "e", "n", "t">>,
         <<"p", "r", "e", "r", "e", "q", "u", "i", "s", "i", "t", "e">>}]

hello_patterns ==
    {<<"h", "e", "l", "l", "o">>,
     <<"h", "i">>,
     <<"h", "e", "y">>,
     <<"h", "e", "l", "o">>,
     <<"h", "i", "i">>,
     <<"h", "e", "l", "o", "o">>,
     <<"U+0C39", "U+0C32", "U+0C4B">>,
     <<"U+0C39", "U+0C3E", "U+0C2F", "U+0C4D">>,
     <<"U+0C39", "U+0C3E", "U+0C2F", "U+0C3F">>,
     <<"n", "a", "m", "a", "s", "t", "e">>,
     <<"n", "a", "m", "a", "s", "t", "h", "e">>,
     <<"U+0C28", "U+0C2E", "U+0C38", "U+0C4D", "U+0C24", "U+0C47">>,
     <<"U+0C28", "U+0C2E", "U+0C38", "U+0C4D", "U+0C15", "U+0C3E", "U+0C30", "U+0C02">>}

\* variant: the greeting test on the stripped text, without lower-casing
IsJustHello_NoLower(user_query) ==
    LET stripped_query == Strip(user_query)
    IN  \E pattern \in hello_patterns :
            \/ stripped_query = pattern
            \/ StartsWith(stripped_query, pattern \o <<" ">>)
            \/ EndsWith(stripped_query, <<" ">> \o pattern)

\* the greeting test of on_user_turn_completed, on the stripped lower-cased text
IsJustHello(user_query) ==
    LET stripped_query == Lower(Strip(user_query))
    IN  \E pattern \in hello_patterns :
            \/ stripped_query = pattern
            \/ StartsWith(stripped_query, pattern \o <<" ">>)
            \/ EndsWith(stripped_query, <<" ">> \o pattern)

\* variant: the topic loop without the test for a topic already recorded
RECURSIVE TrackTopics_NoDedup(_, _, _)
TrackTopics_NoDedup(discussed, user_query_lower, i) ==
    IF i > Len(topics_order) THEN discussed
    ELSE LET topic == topics_order[i]
             hit == \E keyword \in topics_keywords[topic] :
                        Contains(user_query_lower, keyword)
         IN  TrackTopics_NoDedup(IF hit THEN Append(discussed, topic) ELSE discussed,
                                 user_query_lower, i + 1)

\* the topic loop: append every matching topic not recorded yet, in table order
RECURSIVE TrackTopics(_, _, _)
TrackTopics(discussed, user_query_lower, i) ==
    IF i > Len(topics_order) THEN discussed
    ELSE LET topic == topics_order[i]
             hit == \E keyword \in topics_keywords[topic] :
                        Contains(user_query_lower, keyword)
             seen == \E j \in 1..Len(discussed) : discussed[j] = topic
         IN  TrackTopics(IF hit /\ ~seen THEN Append(discussed, topic) ELSE discussed,
                         user_query_lower, i + 1)

(***************************************************************************)
(* Entrypoint: metadata, validation and the dialer.                        *)
(***************************************************************************)
\* json.loads, the regex repair and the fallback to the empty configuration
ParsedDialInfo(m) ==
    IF m.kind \in {"object", "repairable"}
        THEN [phone_number |-> m.phone_number, transfer_to |-> m.transfer_to]
        ELSE EmptyDialInfo

\* dial_info.setdefault("transfer_to", ...) in phone mode
WithTransferDefault(d) ==
    IF d.phone_number # NoPhone /\ d.transfer_to = "absent"
        THEN [d EXCEPT !.transfer_to = "set"]
        ELSE d

phone_number == dial_info.phone_number

\* variant: every session is taken for a phone call
is_phone_call_Always == TRUE

is_phone_call == phone_number # NoPhone

\* variant: only the leading '+' is checked
PhoneFormatError_PlusOnly(p) == ~StartsWithPlus(p)

\* the destination checks that raise ValueError
PhoneFormatError(p) == ~StartsWithPlus(p) \/ ~IsDigitStr(Tail1(p))

\* the length check, which logs a warning
PhoneLengthUnusual(p) == Len(p) < 10 \/ Len(p) > 16

\* phone mode and one of the checks before the dial loop raises
DialRefused ==
    is_phone_call /\ (PhoneFormatError(phone_number) \/ ~outbound_trunk_id)

\* variant: the retry loop counts one attempt too many
MoreAttempts_OneTooMany(n) == n <= max_retries

\* the retry loop has attempts left after a failure
MoreAttempts(n) == n < max_retries

\* variant: the last failure is swallowed and the entrypoint goes on
AfterFinalFailure_Swallowed == "wait_participant"

\* where the entrypoint goes when the last attempt failed: the error is
\* re-raised into the except/finally blocks
AfterFinalFailure == "cleanup"

\* dial_info.get(...) on JSON that is not an object raises outside every try
ParseMetadata ==
    /\ entry_pc = "parse"
    /\ entry_pc' = (IF metadata.kind = "nonobject" THEN "crashed" ELSE "session_start")
    /\ dial_info' = (IF metadata.kind = "nonobject" THEN dial_info
                     ELSE WithTransferDefault(ParsedDialInfo(metadata)))
    /\ UNCHANGED <<metadata, outbound_trunk_id, entry_timer, entry_exc, attempt, mic_iter,
                   monitor_elapsed, create_sip_calls, in_room, disconnected_future,
                   room_deleted, participant, introduction_completed, silence_check_count,
                   last_user_speech_age, is_agent_speaking, user_turn_count,
                   topics_discussed, last_message, is_just_hello, silence_monitor_task,
                   monitor_pc, monitor_timer, hangup_in_progress, goodbye_requests,
                   monitor_hangups, delete_room_calls, end_call_pc, end_call_timer, dam_pc,
                   transfer_pc, check_pc, check_timer, first_check_age, tool_result>>

\* session.start(...) completed
SessionStarted ==
    /\ entry_pc = "session_start"
    /\ entry_pc' = "validate"
    /\ UNCHANGED <<metadata, outbound_trunk_id, dial_info, entry_timer, entry_exc, attempt,
                   mic_iter, monitor_elapsed, create_sip_calls, in_room,
                   disconnected_future, room_deleted, participant, introduction_completed,
                   silence_check_count, last_user_speech_age, is_agent_speaking,
                   user_turn_count, topics_discussed, last_message, is_just_hello,
                   silence_monitor_task, monitor_pc, monitor_timer, hangup_in_progress,
                   goodbye_requests, monitor_hangups, delete_room_calls, end_call_pc,
                   end_call_timer, dam_pc, transfer_pc, check_pc, check_timer,
                   first_check_age, tool_result>>

\* the try body up to the first create_sip_participant call
ValidateAndDial ==
    /\ entry_pc = "validate"
    /\ entry_pc' = (IF ~is_phone_call THEN "wait_participant"
                    ELSE IF DialRefused THEN "cleanup" ELSE "dialing")
    /\ entry_exc' = (IF DialRefused THEN "ValueError" ELSE entry_exc)
    /\ attempt' = (IF is_phone_call /\ ~DialRefused THEN 1 ELSE attempt)
    /\ create_sip_calls' = (IF is_phone_call /\ ~DialRefused
                            THEN create_sip_calls + 1 ELSE create_sip_calls)
    /\ UNCHANGED <<metadata, outbound_trunk_id, dial_info, entry_timer, mic_iter,
                   monitor_elapsed, in_room, disconnected_future, room_deleted,
                   participant, introduction_completed, silence_check_count,
                   last_user_speech_age, is_agent_speaking, user_turn_count,
                   topics_discussed, last_message, is_just_hello, silence_monitor_task,
                   monitor_pc, monitor_timer, hangup_in_progress, goodbye_requests,
                   monitor_hangups, delete_room_calls, end_call_pc, end_call_timer, dam_pc,
                   transfer_pc, check_pc, check_timer, first_check_age, tool_result>>

\* create_sip_participant(wait_until_answered=True) returned: the callee answered
DialSucceeded ==
    /\ entry_pc = "dialing"
    /\ in_room' = TRUE
    /\ attempt' = 0
    /\ entry_pc' = "wait_participant"
    /\ UNCHANGED <<metadata, outbound_trunk_id, dial_info, entry_timer, entry_exc,
                   mic_iter, monitor_elapsed, create_sip_calls, disconnected_future,
                   room_deleted, participant, introduction_completed, silence_check_count,
                   last_user_speech_age, is_agent_speaking, user_turn_count,
                   topics_discussed, last_message, is_just_hello, silence_monitor_task,
                   monitor_pc, monitor_timer, hangup_in_progress, goodbye_requests,
                   monitor_hangups, delete_room_calls, end_call_pc, end_call_timer, dam_pc,
                   transfer_pc, check_pc, check_timer, first_check_age, tool_result>>

\* create_sip_participant raised
DialFailed ==
    /\ entry_pc = "dialing"
    /\ entry_pc' = (IF MoreAttempts(attempt) THEN "retry_sleep" ELSE AfterFinalFailure)
    /\ entry_timer' = (IF MoreAttempts(attempt) THEN retry_delay ELSE entry_timer)
    /\ entry_exc' = (IF MoreAttempts(attempt) THEN entry_exc ELSE "SipError")
    /\ attempt' = (IF MoreAttempts(attempt) THEN attempt ELSE 0)
    /\ UNCHANGED <<metadata, outbound_trunk_id, dial_info, mic_iter, monitor_elapsed,
                   create_sip_calls, in_room, disconnected_future, room_deleted,
                   participant, introduction_completed, silence_check_count,
                   last_user_speech_age, is_agent_speaking, user_turn_count,
                   topics_discussed, last_message, is_just_hello, silence_monitor_task,
                   monitor_pc, monitor_timer, hangup_in_progress, goodbye_requests,
                   monitor_hangups, delete_room_calls, end_call_pc, end_call_timer, dam_pc,
                   transfer_pc, check_pc, check_timer, first_check_age, tool_result>>

\* the retry delay is over: next attempt
RetryDial ==
    /\ entry_pc = "retry_sleep"
    /\ entry_timer = 0
    /\ attempt' = attempt + 1
    /\ create_sip_calls' = create_sip_calls + 1
    /\ entry_pc' = "dialing"
    /\ UNCHANGED <<metadata, outbound_trunk_id, dial_info, entry_timer, entry_exc,
                   mic_iter, monitor_elapsed, in_room, disconnected_future, room_deleted,
                   participant, introduction_completed, silence_check_count,
                   last_user_speech_age, is_agent_speaking, user_turn_count,
                   topics_discussed, last_message, is_just_hello, silence_monitor_task,
                   monitor_pc, monitor_timer, hangup_in_progress, goodbye_requests,
                   monitor_hangups, delete_room_calls, end_call_pc, end_call_timer, dam_pc,
                   transfer_pc, check_pc, check_timer, first_check_age, tool_result>>

\* a web participant joins the room (playground mode)
ParticipantJoins ==
    /\ entry_pc = "wait_participant"
    /\ ~is_phone_call
    /\ ~in_room
    /\ in_room' = TRUE
    /\ UNCHANGED <<metadata, outbound_trunk_id, dial_info, entry_pc, entry_timer,
                   entry_exc, attempt, mic_iter, monitor_elapsed, create_sip_calls,
                   disconnected_future, room_deleted, participant, introduction_completed,
                   silence_check_count, last_user_speech_age, is_agent_speaking,
                   user_turn_count, topics_discussed, last_message, is_just_hello,
                   silence_monitor_task, monitor_pc, monitor_timer, hangup_in_progress,
                   goodbye_requests, monitor_hangups, delete_room_calls, end_call_pc,
                   end_call_timer, dam_pc, transfer_pc, check_pc, check_timer,
                   first_check_age, tool_result>>

\* ctx.wait_for_participant returned
WaitForParticipant ==
    /\ entry_pc = "wait_participant"
    /\ in_room
    /\ entry_pc' = "track_wait"
    /\ entry_timer' = TRACK_PUBLISH_WAIT
    /\ UNCHANGED <<metadata, outbound_trunk_id, dial_info, entry_exc, attempt, mic_iter,
                   monitor_elapsed, create_sip_calls, in_room, disconnected_future,
                   room_deleted, participant, introduction_completed, silence_check_count,
                   last_user_speech_age, is_agent_speaking, user_turn_count,
                   topics_discussed, last_message, is_just_hello, silence_monitor_task,
                   monitor_pc, monitor_timer, hangup_in_progress, goodbye_requests,
                   monitor_hangups, delete_room_calls, end_call_pc, end_call_timer, dam_pc,
                   transfer_pc, check_pc, check_timer, first_check_age, tool_result>>

\* except/finally of the entrypoint, then ctx.shutdown()
Cleanup ==
    /\ entry_pc = "cleanup"
    /\ entry_pc' = "shutdown"
    /\ UNCHANGED <<metadata, outbound_trunk_id, dial_info, entry_timer, entry_exc, attempt,
                   mic_iter, monitor_elapsed, create_sip_calls, in_room,
                   disconnected_future, room_deleted, participant, introduction_completed,
                   silence_check_count, last_user_speech_age, is_agent_speaking,
                   user_turn_count, topics_discussed, last_message, is_just_hello,
                   silence_monitor_task, monitor_pc, monitor_timer, hangup_in_progress,
                   goodbye_requests, monitor_hangups, delete_room_calls, end_call_pc,
                   end_call_timer, dam_pc, transfer_pc, check_pc, check_timer,
                   first_check_age, tool_result>>

(***************************************************************************)
(* Entrypoint: after the participant joined.                               *)
(***************************************************************************)

\* agent.set_participant, set_agent_session and the state initialisation,
\* up to the 0.5 s stabilising sleep
InitAgentState ==
    /\ participant' = TRUE
    /\ last_user_speech_age' = 0
    /\ introduction_completed' = FALSE
    /\ mic_iter' = 0
    /\ entry_pc' = "stabilize"
    /\ entry_timer' = TRACK_PUBLISH_WAIT

\* one more round of the wait for the microphone track
MicWaitRound ==
    /\ mic_iter' = mic_iter + 1
    /\ entry_pc' = "mic_wait"
    /\ entry_timer' = TRACK_PUBLISH_WAIT
    /\ UNCHANGED <<participant, last_user_speech_age, introduction_completed>>

\* the sleep after the join is over; look for the microphone track
TrackWaitDone ==
    /\ entry_pc = "track_wait"
    /\ entry_timer = 0
    /\ \E audio_track_found \in BOOLEAN :
          IF audio_track_found THEN InitAgentState ELSE MicWaitRound
    /\ UNCHANGED <<metadata, outbound_trunk_id, dial_info, entry_exc, attempt,
                   monitor_elapsed, create_sip_calls, in_room, disconnected_future,
                   room_deleted, silence_check_count, is_agent_speaking, user_turn_count,
                   topics_discussed, last_message, is_just_hello, silence_monitor_task,
                   monitor_pc, monitor_timer, hangup_in_progress, goodbye_requests,
                   monitor_hangups, delete_room_calls, end_call_pc, end_call_timer, dam_pc,
                   transfer_pc, check_pc, check_timer, first_check_age, tool_result>>

\* one round of the wait for the microphone track is over (at most ten)
MicWaitDone ==
    /\ entry_pc = "mic_wait"
    /\ entry_timer = 0
    /\ \E audio_track_found \in BOOLEAN :
          IF audio_track_found \/ mic_iter >= MIC_WAIT_ROUNDS
             THEN InitAgentState ELSE MicWaitRound
    /\ UNCHANGED <<metadata, outbound_trunk_id, dial_info, entry_exc, attempt,
                   monitor_elapsed, create_sip_calls, in_room, disconnected_future,
                   room_deleted, silence_check_count, is_agent_speaking, user_turn_count,
                   topics_discussed, last_message, is_just_hello, silence_monitor_task,
                   monitor_pc, monitor_timer, hangup_in_progress, goodbye_requests,
                   monitor_hangups, delete_room_calls, end_call_pc, end_call_timer, dam_pc,
                   transfer_pc, check_pc, check_timer, first_check_age, tool_result>>

\* entering the post-greeting activity wait
BeginActivityWait ==
    /\ entry_pc' = "activity_wait"
    /\ entry_timer' = monitor_interval
    /\ monitor_elapsed' = 0

\* after the stabilising sleep: greet (generate_reply) unless the user already spoke
GreetCheck ==
    /\ entry_pc = "stabilize"
    /\ entry_timer = 0
    /\ IF user_turn_count > 0
          THEN BeginActivityWait
          ELSE /\ entry_pc' = "greeting"
               /\ UNCHANGED <<entry_timer, monitor_elapsed>>
    /\ UNCHANGED <<metadata, outbound_trunk_id, dial_info, entry_exc, attempt, mic_iter,
                   create_sip_calls, in_room, disconnected_future, room_deleted,
                   participant, introduction_completed, silence_check_count,
                   last_user_speech_age, is_agent_speaking, user_turn_count,
                   topics_discussed, last_message, is_just_hello, silence_monitor_task,
                   monitor_pc, monitor_timer, hangup_in_progress, goodbye_requests,
                   monitor_hangups, delete_room_calls, end_call_pc, end_call_timer, dam_pc,
                   transfer_pc, check_pc, check_timer, first_check_age, tool_result>>

\* the proactive generate_reply returned
GreetingSucceeded ==
    /\ entry_pc = "greeting"
    /\ introduction_completed' = TRUE
    /\ BeginActivityWait
    /\ UNCHANGED <<metadata, outbound_trunk_id, dial_info, entry_exc, attempt, mic_iter,
                   create_sip_calls, in_room, disconnected_future, room_deleted,
                   participant, silence_check_count, last_user_speech_age,
                   is_agent_speaking, user_turn_count, topics_discussed, last_message,
                   is_just_hello, silence_monitor_task, monitor_pc, monitor_timer,
                   hangup_in_progress, goodbye_requests, monitor_hangups,
                   delete_room_calls, end_call_pc, end_call_timer, dam_pc, transfer_pc,
                   check_pc, check_timer, first_check_age, tool_result>>

\* the proactive generate_reply raised: speak the fallback greeting (session.say)
GreetingFailed ==
    /\ entry_pc = "greeting"
    /\ entry_pc' = "fallback"
    /\ UNCHANGED <<metadata, outbound_trunk_id, dial_info, entry_timer, entry_exc, attempt,
                   mic_iter, monitor_elapsed, create_sip_calls, in_room,
                   disconnected_future, room_deleted, participant, introduction_completed,
                   silence_check_count, last_user_speech_age, is_agent_speaking,
                   user_turn_count, topics_discussed, last_message, is_just_hello,
                   silence_monitor_task, monitor_pc, monitor_timer, hangup_in_progress,
                   goodbye_requests, monitor_hangups, delete_room_calls, end_call_pc,
                   end_call_timer, dam_pc, transfer_pc, check_pc, check_timer,
                   first_check_age, tool_result>>

\* variant: a failure of session.say ends the session
FallbackDone_FailureEndsSession ==
    /\ entry_pc = "fallback"
    /\ \E ok \in BOOLEAN :
          IF ok THEN /\ introduction_completed' = TRUE
                     /\ BeginActivityWait
                ELSE /\ entry_pc' = "cleanup"
                     /\ UNCHANGED <<introduction_completed, entry_timer, monitor_elapsed>>
    /\ UNCHANGED <<metadata, outbound_trunk_id, dial_info, entry_exc, attempt, mic_iter,
                   create_sip_calls, in_room, disconnected_future, room_deleted,
                   participant, silence_check_count, last_user_speech_age,
                   is_agent_speaking, user_turn_count, topics_discussed, last_message,
                   is_just_hello, silence_monitor_task, monitor_pc, monitor_timer,
                   hangup_in_progress, goodbye_requests, monitor_hangups,
                   delete_room_calls, end_call_pc, end_call_timer, dam_pc, transfer_pc,
                   check_pc, check_timer, first_check_age, tool_result>>

\* session.say(greeting_text) returned or raised
FallbackDone ==
    /\ entry_pc = "fallback"
    /\ \E ok \in BOOLEAN :
          introduction_completed' = (IF ok THEN TRUE ELSE introduction_completed)
    /\ BeginActivityWait
    /\ UNCHANGED <<metadata, outbound_trunk_id, dial_info, entry_exc, attempt, mic_iter,
                   create_sip_calls, in_room, disconnected_future, room_deleted,
                   participant, silence_check_count, last_user_speech_age,
                   is_agent_speaking, user_turn_count, topics_discussed, last_message,
                   is_just_hello, silence_monitor_task, monitor_pc, monitor_timer,
                   hangup_in_progress, goodbye_requests, monitor_hangups,
                   delete_room_calls, end_call_pc, end_call_timer, dam_pc, transfer_pc,
                   check_pc, check_timer, first_check_age, tool_result>>

\* setup_silence_monitor, the disconnect handler and the wait on the future
StartMonitor ==
    /\ silence_monitor_task' = "running"
    /\ monitor_pc' = "sleep"
    /\ monitor_timer' = SILENCE_CHECK_INTERVAL
    /\ hangup_in_progress' = FALSE
    /\ monitor_elapsed' = 0
    /\ entry_pc' = "await_disconnect"
    /\ UNCHANGED entry_timer

\* the activity wait goes on for another second
ActivityWaitRound ==
    /\ monitor_elapsed' = monitor_elapsed + monitor_interval
    /\ entry_timer' = monitor_interval
    /\ UNCHANGED <<entry_pc, silence_monitor_task, monitor_pc, monitor_timer,
                   hangup_in_progress>>

\* one round of the activity wait is over
ActivityWaitDone ==
    /\ entry_pc = "activity_wait"
    /\ entry_timer = 0
    /\ IF \/ user_turn_count > 0
          \/ introduction_completed
          \/ monitor_elapsed + monitor_interval >= max_monitor
          THEN StartMonitor ELSE ActivityWaitRound
    /\ UNCHANGED <<metadata, outbound_trunk_id, dial_info, entry_exc, attempt, mic_iter,
                   create_sip_calls, in_room, disconnected_future, room_deleted,
                   participant, introduction_completed, silence_check_count,
                   last_user_speech_age, is_agent_speaking, user_turn_count,
                   topics_discussed, last_message, is_just_hello, goodbye_requests,
                   monitor_hangups, delete_room_calls, end_call_pc, end_call_timer, dam_pc,
                   transfer_pc, check_pc, check_timer, first_check_age, tool_result>>

\* disconnected_future resolved: leave the try body
AwaitDisconnectDone ==
    /\ entry_pc = "await_disconnect"
    /\ disconnected_future
    /\ entry_pc' = "cleanup"
    /\ UNCHANGED <<metadata, outbound_trunk_id, dial_info, entry_timer, entry_exc, attempt,
                   mic_iter, monitor_elapsed, create_sip_calls, in_room,
                   disconnected_future, room_deleted, participant, introduction_completed,
                   silence_check_count, last_user_speech_age, is_agent_speaking,
                   user_turn_count, topics_discussed, last_message, is_just_hello,
                   silence_monitor_task, monitor_pc, monitor_timer, hangup_in_progress,
                   goodbye_requests, monitor_hangups, delete_room_calls, end_call_pc,
                   end_call_timer, dam_pc, transfer_pc, check_pc, check_timer,
                   first_check_age, tool_result>>

(***************************************************************************)
(* The remote party leaves the room: it hung up, was transferred, or the   *)
(* room was deleted.  on_participant_disconnected runs only once it is     *)
(* registered, which the entrypoint does right before it waits on          *)
(* disconnected_future.                                                    *)
(***************************************************************************)
HandlerRegistered == entry_pc = "await_disconnect"

\* variant: the cancelled monitor hangs up on its way out
ParticipantDisconnected_CancelHangsUp ==
    /\ in_room
    /\ in_room' = FALSE
    /\ disconnected_future' = (disconnected_future \/ HandlerRegistered)
    /\ silence_monitor_task' =
          (IF HandlerRegistered /\ silence_monitor_task = "running"
           THEN "cancelled" ELSE silence_monitor_task)
    /\ monitor_pc' =
          (IF HandlerRegistered /\ silence_monitor_task = "running"
           THEN "cancelled" ELSE monitor_pc)
    /\ delete_room_calls' =
          (IF HandlerRegistered /\ silence_monitor_task = "running"
           THEN delete_room_calls + 1 ELSE delete_room_calls)
    /\ UNCHANGED <<metadata, outbound_trunk_id, dial_info, entry_pc, entry_timer,
                   entry_exc, attempt, mic_iter, monitor_elapsed, create_sip_calls,
                   room_deleted, participant, introduction_completed, silence_check_count,
                   last_user_speech_age, is_agent_speaking, user_turn_count,
                   topics_discussed, last_message, is_just_hello, monitor_timer,
                   hangup_in_progress, goodbye_requests, monitor_hangups, end_call_pc,
                   end_call_timer, dam_pc, transfer_pc, check_pc, check_timer,
                   first_check_age, tool_result>>

ParticipantDisconnected ==
    /\ in_room
    /\ in_room' = FALSE
    /\ disconnected_future' = (disconnected_future \/ HandlerRegistered)
    /\ silence_monitor_task' =
          (IF HandlerRegistered /\ silence_monitor_task = "running"
           THEN "cancelled" ELSE silence_monitor_task)
    /\ monitor_pc' =
          (IF HandlerRegistered /\ silence_monitor_task = "running"
           THEN "cancelled" ELSE monitor_pc)
    /\ UNCHANGED <<metadata, outbound_trunk_id, dial_info, entry_pc, entry_timer,
                   entry_exc, attempt, mic_iter, monitor_elapsed, create_sip_calls,
                   room_deleted, participant, introduction_completed, silence_check_count,
                   last_user_speech_age, is_agent_speaking, user_turn_count,
                   topics_discussed, last_message, is_just_hello, monitor_timer,
                   hangup_in_progress, goodbye_requests, monitor_hangups,
                   delete_room_calls, end_call_pc, end_call_timer, dam_pc, transfer_pc,
                   check_pc, check_timer, first_check_age, tool_result>>

TextChars == {"h", "i", "H", " ", "e"}

\* longer utterances: a greeting with a question, a question about fees
SampleTexts ==
    {<<"h", "i", " ", "f", "e", "e">>, <<"f", "e", "e", " ", "h", "i">>,
     <<"f", "e", "e">>, <<"h", "e", "l", "l", "o">>, <<"j", "o", "b", " ", "f", "e", "e">>}

\* every utterance up to MaxTextLen characters, and the longer ones
Texts == SeqsUpTo(TextChars, MaxTextLen) \cup SampleTexts

\* the utterance of the timed sessions
SessionTexts == {<<"h", "i">>}

(***************************************************************************)
(* Agent callbacks.                                                        *)
(***************************************************************************)
session_live == entry_pc \notin {"parse", "session_start", "shutdown", "crashed"}

\* variant: only a pending first check-in is cleared
ResetSilenceCheck_FirstLevelOnly(count) == IF count = 1 THEN 0 ELSE count

\* the value the turn handler leaves in silence_check_count
ResetSilenceCheck(count) == 0

\* the first user turn completes the introduction
IntroAfterTurn(count, intro) == IF count = 1 THEN TRUE ELSE intro

on_user_turn_completed(user_query) ==
    LET count == user_turn_count + 1
        intro == IntroAfterTurn(count, introduction_completed)
    IN  /\ user_turn_count' = count
        /\ last_message' = user_query
        /\ topics_discussed' = TrackTopics(topics_discussed, Lower(user_query), 1)
        /\ last_user_speech_age' = 0
        /\ introduction_completed' = intro
        /\ is_just_hello' = (intro /\ count > 1 /\ IsJustHello(user_query))
        /\ silence_check_count' = ResetSilenceCheck(silence_check_count)

\* the transcription collaborator delivers a completed user turn
UserTurn(texts) ==
    /\ session_live
    /\ in_room
    /\ user_turn_count < MaxTurns
    /\ \E user_query \in texts : on_user_turn_completed(user_query)
    /\ UNCHANGED <<metadata, outbound_trunk_id, dial_info, entry_pc, entry_timer,
                   entry_exc, attempt, mic_iter, monitor_elapsed, create_sip_calls,
                   in_room, disconnected_future, room_deleted, participant,
                   is_agent_speaking, silence_monitor_task, monitor_pc, monitor_timer,
                   hangup_in_progress, goodbye_requests, monitor_hangups,
                   delete_room_calls, end_call_pc, end_call_timer, dam_pc, transfer_pc,
                   check_pc, check_timer, first_check_age, tool_result>>

UserSpeaks == UserTurn(SessionTexts)

UserSaysAnything == UserTurn(Texts)

on_agent_speech_started ==
    /\ session_live
    /\ ~is_agent_speaking
    /\ is_agent_speaking' = TRUE
    /\ UNCHANGED <<metadata, outbound_trunk_id, dial_info, entry_pc, entry_timer,
                   entry_exc, attempt, mic_iter, monitor_elapsed, create_sip_calls,
                   in_room, disconnected_future, room_deleted, participant,
                   introduction_completed, silence_check_count, last_user_speech_age,
                   user_turn_count, topics_discussed, last_message, is_just_hello,
                   silence_monitor_task, monitor_pc, monitor_timer, hangup_in_progress,
                   goodbye_requests, monitor_hangups, delete_room_calls, end_call_pc,
                   end_call_timer, dam_pc, transfer_pc, check_pc, check_timer,
                   first_check_age, tool_result>>

on_agent_speech_completed ==
    /\ session_live
    /\ is_agent_speaking
    /\ is_agent_speaking' = FALSE
    /\ UNCHANGED <<metadata, outbound_trunk_id, dial_info, entry_pc, entry_timer,
                   entry_exc, attempt, mic_iter, monitor_elapsed, create_sip_calls,
                   in_room, disconnected_future, room_deleted, participant,
                   introduction_completed, silence_check_count, last_user_speech_age,
                   user_turn_count, topics_discussed, last_message, is_just_hello,
                   silence_monitor_task, monitor_pc, monitor_timer, hangup_in_progress,
                   goodbye_requests, monitor_hangups, delete_room_calls, end_call_pc,
                   end_call_timer, dam_pc, transfer_pc, check_pc, check_timer,
                   first_check_age, tool_result>>

(***************************************************************************)
(* hangup(): log the summary and call delete_room; every error of the      *)
(* gateway is caught inside.  The call is issued by the step that invokes  *)
(* hangup(); the gateway's answer arrives in a later step.                 *)
(***************************************************************************)

hangup == delete_room_calls' = delete_room_calls + 1

\* answers of the gateway to delete_room: done, already gone, any other error
DeleteOutcomes == {"ok", "not_found", "error"}

\* the gateway answers a delete_room call
DeleteRoomAnswer(outcome) ==
    /\ outcome = "ok" => ~room_deleted
    /\ outcome = "not_found" => room_deleted
    /\ room_deleted' = (room_deleted \/ outcome = "ok")

\* variant: hangup() lets the errors other than not-found through
HangupRaises_GenuineErrors(outcome) == IF outcome = "error" THEN "TwirpError" ELSE None

\* what hangup() raises to its caller: both except clauses only log
HangupRaises(outcome) == None

\* the result of a tool call: its return value or the exception it raised
ToolResult(tool, result) == [tool |-> tool, result |-> result]

(***************************************************************************)
(* monitor_silence, the task made by setup_silence_monitor.                *)
(***************************************************************************)
user_silence_duration == last_user_speech_age

MonitorRunning == silence_monitor_task = "running"

\* variant: the poll does not look at is_agent_speaking
MonitorSkips_IgnoreSpeaking ==
    \/ hangup_in_progress
    \/ ~introduction_completed
    \/ last_user_speech_age = NoTime

\* variant: the poll does not look at introduction_completed
MonitorSkips_IgnoreIntroduction ==
    \/ hangup_in_progress
    \/ last_user_speech_age = NoTime
    \/ is_agent_speaking

\* the poll skips: hangup in progress, no introduction, no timestamp, agent speaking
MonitorSkips ==
    \/ hangup_in_progress
    \/ ~introduction_completed
    \/ last_user_speech_age = NoTime
    \/ is_agent_speaking

FirstCheckDue ==
    user_silence_duration > USER_SILENCE_THRESHOLD /\ silence_check_count = 0

\* variant: the second check without the wait added to the threshold
SecondCheckDue_NoGrace ==
    /\ user_silence_duration > USER_SILENCE_THRESHOLD
    /\ silence_check_count = 1

SecondCheckDue ==
    /\ user_silence_duration > USER_SILENCE_THRESHOLD + SECOND_CHECK_WAIT_TIME
    /\ silence_check_count = 1

EmergencyDue == user_silence_duration > EMERGENCY_SILENCE /\ ~hangup_in_progress

\* continue: back to the poll sleep
MonitorContinue ==
    /\ monitor_pc' = "sleep"
    /\ monitor_timer' = SILENCE_CHECK_INTERVAL

\* the monitor invokes hangup()
MonitorInvokesHangup ==
    /\ hangup_in_progress' = TRUE
    /\ monitor_hangups' = monitor_hangups + 1
    /\ hangup
    /\ monitor_pc' = "deleting"

\* one pass of the loop body after the poll sleep
MonitorPoll ==
    /\ MonitorRunning
    /\ monitor_pc = "sleep"
    /\ monitor_timer = 0
    /\ IF MonitorSkips
          THEN /\ MonitorContinue
               /\ UNCHANGED <<silence_check_count, first_check_age, hangup_in_progress,
                              goodbye_requests, monitor_hangups, delete_room_calls>>
       ELSE IF FirstCheckDue
          THEN /\ silence_check_count' = 1
               /\ first_check_age' = 0
               /\ MonitorContinue
               /\ UNCHANGED <<hangup_in_progress, goodbye_requests, monitor_hangups,
                              delete_room_calls>>
       ELSE IF SecondCheckDue
          THEN /\ silence_check_count' = 2
               /\ goodbye_requests' = goodbye_requests + 1
               /\ monitor_pc' = "goodbye"
               /\ UNCHANGED <<monitor_timer, first_check_age, hangup_in_progress,
                              monitor_hangups, delete_room_calls>>
       ELSE IF EmergencyDue
          THEN /\ MonitorInvokesHangup
               /\ UNCHANGED <<monitor_timer, silence_check_count, first_check_age,
                              goodbye_requests>>
          ELSE /\ MonitorContinue
               /\ UNCHANGED <<silence_check_count, first_check_age, hangup_in_progress,
                              goodbye_requests, monitor_hangups, delete_room_calls>>
    /\ UNCHANGED <<metadata, outbound_trunk_id, dial_info, entry_pc, entry_timer,
                   entry_exc, attempt, mic_iter, monitor_elapsed, create_sip_calls,
                   in_room, disconnected_future, room_deleted, participant,
                   introduction_completed, last_user_speech_age, is_agent_speaking,
                   user_turn_count, topics_discussed, last_message, is_just_hello,
                   silence_monitor_task, end_call_pc, end_call_timer, dam_pc, transfer_pc,
                   check_pc, check_timer, tool_result>>

\* the goodbye generate_reply returned: wait the estimated playout time
MonitorGoodbyeSpoken ==
    /\ MonitorRunning
    /\ monitor_pc = "goodbye"
    /\ monitor_pc' = "playout_wait"
    /\ monitor_timer' = GOODBYE_PLAYOUT_WAIT
    /\ UNCHANGED <<metadata, outbound_trunk_id, dial_info, entry_pc, entry_timer,
                   entry_exc, attempt, mic_iter, monitor_elapsed, create_sip_calls,
                   in_room, disconnected_future, room_deleted, participant,
                   introduction_completed, silence_check_count, last_user_speech_age,
                   is_agent_speaking, user_turn_count, topics_discussed, last_message,
                   is_just_hello, silence_monitor_task, hangup_in_progress,
                   goodbye_requests, monitor_hangups, delete_room_calls, end_call_pc,
                   end_call_timer, dam_pc, transfer_pc, check_pc, check_timer,
                   first_check_age, tool_result>>

\* the goodbye generate_reply raised: logged, the loop goes on
MonitorGoodbyeFailed ==
    /\ MonitorRunning
    /\ monitor_pc = "goodbye"
    /\ MonitorContinue
    /\ UNCHANGED <<metadata, outbound_trunk_id, dial_info, entry_pc, entry_timer,
                   entry_exc, attempt, mic_iter, monitor_elapsed, create_sip_calls,
                   in_room, disconnected_future, room_deleted, participant,
                   introduction_completed, silence_check_count, last_user_speech_age,
                   is_agent_speaking, user_turn_count, topics_discussed, last_message,
                   is_just_hello, silence_monitor_task, hangup_in_progress,
                   goodbye_requests, monitor_hangups, delete_room_calls, end_call_pc,
                   end_call_timer, dam_pc, transfer_pc, check_pc, check_timer,
                   first_check_age, tool_result>>

\* variant: after the playout wait the monitor hangs up only when the level
\* is still 2, and goes back to polling after a user turn
MonitorHangup_RechecksLevel ==
    /\ MonitorRunning
    /\ monitor_pc = "playout_wait"
    /\ monitor_timer = 0
    /\ IF silence_check_count = 2
          THEN /\ MonitorInvokesHangup
               /\ UNCHANGED monitor_timer
          ELSE /\ MonitorContinue
               /\ UNCHANGED <<hangup_in_progress, monitor_hangups, delete_room_calls>>
    /\ UNCHANGED <<metadata, outbound_trunk_id, dial_info, entry_pc, entry_timer,
                   entry_exc, attempt, mic_iter, monitor_elapsed, create_sip_calls,
                   in_room, disconnected_future, room_deleted, participant,
                   introduction_completed, silence_check_count, last_user_speech_age,
                   is_agent_speaking, user_turn_count, topics_discussed, last_message,
                   is_just_hello, silence_monitor_task, goodbye_requests, end_call_pc,
                   end_call_timer, dam_pc, transfer_pc, check_pc, check_timer,
                   first_check_age, tool_result>>

\* the playout wait is over: hang up
MonitorHangup ==
    /\ MonitorRunning
    /\ monitor_pc = "playout_wait"
    /\ monitor_timer = 0
    /\ MonitorInvokesHangup
    /\ UNCHANGED <<metadata, outbound_trunk_id, dial_info, entry_pc, entry_timer,
                   entry_exc, attempt, mic_iter, monitor_elapsed, create_sip_calls,
                   in_room, disconnected_future, room_deleted, participant,
                   introduction_completed, silence_check_count, last_user_speech_age,
                   is_agent_speaking, user_turn_count, topics_discussed, last_message,
                   is_just_hello, silence_monitor_task, monitor_timer, goodbye_requests,
                   end_call_pc, end_call_timer, dam_pc, transfer_pc, check_pc, check_timer,
                   first_check_age, tool_result>>

\* variant: after a delete_room that did not delete the room the guard is
\* released and the loop goes on
MonitorHangupDone_RetriesAfterError ==
    /\ MonitorRunning
    /\ monitor_pc = "deleting"
    /\ \E outcome \in DeleteOutcomes :
          /\ DeleteRoomAnswer(outcome)
          /\ IF outcome # "error"
                THEN /\ monitor_pc' = "done"
                     /\ silence_monitor_task' = "done"
                     /\ UNCHANGED <<monitor_timer, hangup_in_progress>>
                ELSE /\ MonitorContinue
                     /\ hangup_in_progress' = FALSE
                     /\ UNCHANGED silence_monitor_task
    /\ UNCHANGED <<metadata, outbound_trunk_id, dial_info, entry_pc, entry_timer,
                   entry_exc, attempt, mic_iter, monitor_elapsed, create_sip_calls,
                   in_room, disconnected_future, participant, introduction_completed,
                   silence_check_count, last_user_speech_age, is_agent_speaking,
                   user_turn_count, topics_discussed, last_message, is_just_hello,
                   goodbye_requests, monitor_hangups, delete_room_calls, end_call_pc,
                   end_call_timer, dam_pc, transfer_pc, check_pc, check_timer,
                   first_check_age, tool_result>>

\* hangup() returned: break out of the loop, the task ends (an exception
\* of hangup() would be logged by the except clause and the loop would go on)
MonitorHangupDone ==
    /\ MonitorRunning
    /\ monitor_pc = "deleting"
    /\ \E outcome \in DeleteOutcomes :
          /\ DeleteRoomAnswer(outcome)
          /\ IF HangupRaises(outcome) = None
                THEN /\ monitor_pc' = "done"
                     /\ silence_monitor_task' = "done"
                     /\ UNCHANGED monitor_timer
                ELSE /\ MonitorContinue
                     /\ UNCHANGED silence_monitor_task
    /\ UNCHANGED <<metadata, outbound_trunk_id, dial_info, entry_pc, entry_timer,
                   entry_exc, attempt, mic_iter, monitor_elapsed, create_sip_calls,
                   in_room, disconnected_future, participant, introduction_completed,
                   silence_check_count, last_user_speech_age, is_agent_speaking,
                   user_turn_count, topics_discussed, last_message, is_just_hello,
                   hangup_in_progress, goodbye_requests, monitor_hangups,
                   delete_room_calls, end_call_pc, end_call_timer, dam_pc, transfer_pc,
                   check_pc, check_timer, first_check_age, tool_result>>

(***************************************************************************)
(* Tools invoked by the dialogue generator while it talks to the callee.   *)
(***************************************************************************)
\* the dialogue generator runs one tool call at a time
NoToolRunning ==
    /\ end_call_pc = "idle"
    /\ dam_pc = "idle"
    /\ transfer_pc = "idle"
    /\ check_pc = "idle"

\* the dialogue generator calls a tool while it converses with the callee:
\* the session runs, the callee is in the room and the room still exists
ToolsCallable ==
    /\ session_live
    /\ in_room
    /\ ~room_deleted
    /\ NoToolRunning
    /\ delete_room_calls < MaxDeleteCalls

\* end_call up to the wait for the playout; it returns when no participant is set
EndCallInvoked ==
    /\ ToolsCallable
    /\ end_call_pc = "idle"
    /\ end_call_pc' = (IF participant THEN "playout" ELSE "idle")
    /\ tool_result' = (IF participant THEN tool_result ELSE ToolResult("end_call", None))
    /\ UNCHANGED <<metadata, outbound_trunk_id, dial_info, entry_pc, entry_timer,
                   entry_exc, attempt, mic_iter, monitor_elapsed, create_sip_calls,
                   in_room, disconnected_future, room_deleted, participant,
                   introduction_completed, silence_check_count, last_user_speech_age,
                   is_agent_speaking, user_turn_count, topics_discussed, last_message,
                   is_just_hello, silence_monitor_task, monitor_pc, monitor_timer,
                   hangup_in_progress, goodbye_requests, monitor_hangups,
                   delete_room_calls, end_call_timer, dam_pc, transfer_pc, check_pc,
                   check_timer, first_check_age>>

\* variant: an error of the playout wait leaves the tool
AfterPlayout_FailureReturns(ok) == IF ok THEN "delay" ELSE "idle"

\* where end_call goes after ctx.wait_for_playout(): its exception is only logged
AfterPlayout(ok) == "delay"

\* ctx.wait_for_playout() returned or raised: sleep 4 s
EndCallPlayoutDone ==
    /\ end_call_pc = "playout"
    /\ \E ok \in BOOLEAN :
          /\ end_call_pc' = AfterPlayout(ok)
          /\ end_call_timer' = (IF AfterPlayout(ok) = "delay" THEN END_CALL_DELAY
                                ELSE end_call_timer)
          /\ tool_result' = (IF AfterPlayout(ok) = "delay" THEN tool_result
                             ELSE ToolResult("end_call", "Exception"))
    /\ UNCHANGED <<metadata, outbound_trunk_id, dial_info, entry_pc, entry_timer,
                   entry_exc, attempt, mic_iter, monitor_elapsed, create_sip_calls,
                   in_room, disconnected_future, room_deleted, participant,
                   introduction_completed, silence_check_count, last_user_speech_age,
                   is_agent_speaking, user_turn_count, topics_discussed, last_message,
                   is_just_hello, silence_monitor_task, monitor_pc, monitor_timer,
                   hangup_in_progress, goodbye_requests, monitor_hangups,
                   delete_room_calls, dam_pc, transfer_pc, check_pc, check_timer,
                   first_check_age>>

EndCallHangup ==
    /\ end_call_pc = "delay"
    /\ end_call_timer = 0
    /\ hangup
    /\ end_call_pc' = "deleting"
    /\ UNCHANGED <<metadata, outbound_trunk_id, dial_info, entry_pc, entry_timer,
                   entry_exc, attempt, mic_iter, monitor_elapsed, create_sip_calls,
                   in_room, disconnected_future, room_deleted, participant,
                   introduction_completed, silence_check_count, last_user_speech_age,
                   is_agent_speaking, user_turn_count, topics_discussed, last_message,
                   is_just_hello, silence_monitor_task, monitor_pc, monitor_timer,
                   hangup_in_progress, goodbye_requests, monitor_hangups, end_call_timer,
                   dam_pc, transfer_pc, check_pc, check_timer, first_check_age, tool_result>>

EndCallHangupDone ==
    /\ end_call_pc = "deleting"
    /\ \E outcome \in DeleteOutcomes :
          /\ DeleteRoomAnswer(outcome)
          /\ tool_result' = ToolResult("end_call", HangupRaises(outcome))
    /\ end_call_pc' = "idle"
    /\ UNCHANGED <<metadata, outbound_trunk_id, dial_info, entry_pc, entry_timer,
                   entry_exc, attempt, mic_iter, monitor_elapsed, create_sip_calls,
                   in_room, disconnected_future, participant, introduction_completed,
                   silence_check_count, last_user_speech_age, is_agent_speaking,
                   user_turn_count, topics_discussed, last_message, is_just_hello,
                   silence_monitor_task, monitor_pc, monitor_timer, hangup_in_progress,
                   goodbye_requests, monitor_hangups, delete_room_calls, end_call_timer,
                   dam_pc, transfer_pc, check_pc, check_timer, first_check_age>>

\* detected_answering_machine: the log line reads self.participant.identity,
\* which raises when no participant is set
DetectedAnsweringMachine ==
    /\ ToolsCallable
    /\ dam_pc = "idle"
    /\ IF participant
          THEN /\ hangup
               /\ dam_pc' = "deleting"
               /\ UNCHANGED tool_result
          ELSE /\ tool_result' = ToolResult("detected_answering_machine", "AttributeError")
               /\ UNCHANGED <<delete_room_calls, dam_pc>>
    /\ UNCHANGED <<metadata, outbound_trunk_id, dial_info, entry_pc, entry_timer,
                   entry_exc, attempt, mic_iter, monitor_elapsed, create_sip_calls,
                   in_room, disconnected_future, room_deleted, participant,
                   introduction_completed, silence_check_count, last_user_speech_age,
                   is_agent_speaking, user_turn_count, topics_discussed, last_message,
                   is_just_hello, silence_monitor_task, monitor_pc, monitor_timer,
                   hangup_in_progress, goodbye_requests, monitor_hangups, end_call_pc,
                   end_call_timer, transfer_pc, check_pc, check_timer, first_check_age>>

DetectedAnsweringMachineDone ==
    /\ dam_pc = "deleting"
    /\ \E outcome \in DeleteOutcomes :
          /\ DeleteRoomAnswer(outcome)
          /\ tool_result' = ToolResult("detected_answering_machine", HangupRaises(outcome))
    /\ dam_pc' = "idle"
    /\ UNCHANGED <<metadata, outbound_trunk_id, dial_info, entry_pc, entry_timer,
                   entry_exc, attempt, mic_iter, monitor_elapsed, create_sip_calls,
                   in_room, disconnected_future, participant, introduction_completed,
                   silence_check_count, last_user_speech_age, is_agent_speaking,
                   user_turn_count, topics_discussed, last_message, is_just_hello,
                   silence_monitor_task, monitor_pc, monitor_timer, hangup_in_progress,
                   goodbye_requests, monitor_hangups, delete_room_calls, end_call_pc,
                   end_call_timer, transfer_pc, check_pc, check_timer, first_check_age>>

\* transfer_call up to the transfer notice; dial_info["transfer_to"] raises
\* KeyError when the key is absent, an empty target returns at once
TransferInvoked ==
    /\ ToolsCallable
    /\ transfer_pc = "idle"
    /\ transfer_pc' = (IF dial_info.transfer_to = "set" THEN "notice" ELSE "idle")
    /\ tool_result' =
          (IF dial_info.transfer_to = "absent" THEN ToolResult("transfer_call", "KeyError")
           ELSE IF dial_info.transfer_to = "empty"
                THEN ToolResult("transfer_call", "cannot transfer call")
           ELSE tool_result)
    /\ UNCHANGED <<metadata, outbound_trunk_id, dial_info, entry_pc, entry_timer,
                   entry_exc, attempt, mic_iter, monitor_elapsed, create_sip_calls,
                   in_room, disconnected_future, room_deleted, participant,
                   introduction_completed, silence_check_count, last_user_speech_age,
                   is_agent_speaking, user_turn_count, topics_discussed, last_message,
                   is_just_hello, silence_monitor_task, monitor_pc, monitor_timer,
                   hangup_in_progress, goodbye_requests, monitor_hangups,
                   delete_room_calls, end_call_pc, end_call_timer, dam_pc, check_pc,
                   check_timer, first_check_age>>

\* the notice generate_reply returned (transfer_sip_participant is called next;
\* building its request raises inside the try when no participant is set)
\* or it raised (the tool fails)
TransferNoticeDone ==
    /\ transfer_pc = "notice"
    /\ \E ok \in BOOLEAN :
          /\ transfer_pc' = (IF ~ok THEN "idle"
                             ELSE IF participant THEN "transferring" ELSE "apology")
          /\ tool_result' = (IF ~ok THEN ToolResult("transfer_call", "Exception")
                             ELSE tool_result)
    /\ UNCHANGED <<metadata, outbound_trunk_id, dial_info, entry_pc, entry_timer,
                   entry_exc, attempt, mic_iter, monitor_elapsed, create_sip_calls,
                   in_room, disconnected_future, room_deleted, participant,
                   introduction_completed, silence_check_count, last_user_speech_age,
                   is_agent_speaking, user_turn_count, topics_discussed, last_message,
                   is_just_hello, silence_monitor_task, monitor_pc, monitor_timer,
                   hangup_in_progress, goodbye_requests, monitor_hangups,
                   delete_room_calls, end_call_pc, end_call_timer, dam_pc, check_pc,
                   check_timer, first_check_age>>

\* variant: a transfer that went through is followed by hangup()
TransferSucceeded_HangsUp ==
    /\ transfer_pc = "transferring"
    /\ hangup
    /\ transfer_pc' = "deleting"
    /\ UNCHANGED <<metadata, outbound_trunk_id, dial_info, entry_pc, entry_timer,
                   entry_exc, attempt, mic_iter, monitor_elapsed, create_sip_calls,
                   in_room, disconnected_future, room_deleted, participant,
                   introduction_completed, silence_check_count, last_user_speech_age,
                   is_agent_speaking, user_turn_count, topics_discussed, last_message,
                   is_just_hello, silence_monitor_task, monitor_pc, monitor_timer,
                   hangup_in_progress, goodbye_requests, monitor_hangups, end_call_pc,
                   end_call_timer, dam_pc, check_pc, check_timer, first_check_age,
                   tool_result>>

\* transfer_sip_participant returned: the tool returns
TransferSucceeded ==
    /\ transfer_pc = "transferring"
    /\ transfer_pc' = "idle"
    /\ tool_result' = ToolResult("transfer_call", None)
    /\ UNCHANGED <<metadata, outbound_trunk_id, dial_info, entry_pc, entry_timer,
                   entry_exc, attempt, mic_iter, monitor_elapsed, create_sip_calls,
                   in_room, disconnected_future, room_deleted, participant,
                   introduction_completed, silence_check_count, last_user_speech_age,
                   is_agent_speaking, user_turn_count, topics_discussed, last_message,
                   is_just_hello, silence_monitor_task, monitor_pc, monitor_timer,
                   hangup_in_progress, goodbye_requests, monitor_hangups,
                   delete_room_calls, end_call_pc, end_call_timer, dam_pc, check_pc,
                   check_timer, first_check_age>>

\* transfer_sip_participant raised: ask for the apology
TransferFailed ==
    /\ transfer_pc = "transferring"
    /\ transfer_pc' = "apology"
    /\ UNCHANGED <<metadata, outbound_trunk_id, dial_info, entry_pc, entry_timer,
                   entry_exc, attempt, mic_iter, monitor_elapsed, create_sip_calls,
                   in_room, disconnected_future, room_deleted, participant,
                   introduction_completed, silence_check_count, last_user_speech_age,
                   is_agent_speaking, user_turn_count, topics_discussed, last_message,
                   is_just_hello, silence_monitor_task, monitor_pc, monitor_timer,
                   hangup_in_progress, goodbye_requests, monitor_hangups,
                   delete_room_calls, end_call_pc, end_call_timer, dam_pc, check_pc,
                   check_timer, first_check_age, tool_result>>

\* the apology generate_reply returned: hang up
TransferApologySpoken ==
    /\ transfer_pc = "apology"
    /\ hangup
    /\ transfer_pc' = "deleting"
    /\ UNCHANGED <<metadata, outbound_trunk_id, dial_info, entry_pc, entry_timer,
                   entry_exc, attempt, mic_iter, monitor_elapsed, create_sip_calls,
                   in_room, disconnected_future, room_deleted, participant,
                   introduction_completed, silence_check_count, last_user_speech_age,
                   is_agent_speaking, user_turn_count, topics_discussed, last_message,
                   is_just_hello, silence_monitor_task, monitor_pc, monitor_timer,
                   hangup_in_progress, goodbye_requests, monitor_hangups, end_call_pc,
                   end_call_timer, dam_pc, check_pc, check_timer, first_check_age,
                   tool_result>>

\* the apology generate_reply raised inside the except block: the tool fails
TransferApologyFailed ==
    /\ transfer_pc = "apology"
    /\ transfer_pc' = "idle"
    /\ tool_result' = ToolResult("transfer_call", "Exception")
    /\ UNCHANGED <<metadata, outbound_trunk_id, dial_info, entry_pc, entry_timer,
                   entry_exc, attempt, mic_iter, monitor_elapsed, create_sip_calls,
                   in_room, disconnected_future, room_deleted, participant,
                   introduction_completed, silence_check_count, last_user_speech_age,
                   is_agent_speaking, user_turn_count, topics_discussed, last_message,
                   is_just_hello, silence_monitor_task, monitor_pc, monitor_timer,
                   hangup_in_progress, goodbye_requests, monitor_hangups,
                   delete_room_calls, end_call_pc, end_call_timer, dam_pc, check_pc,
                   check_timer, first_check_age>>

TransferHangupDone ==
    /\ transfer_pc = "deleting"
    /\ \E outcome \in DeleteOutcomes :
          /\ DeleteRoomAnswer(outcome)
          /\ tool_result' = ToolResult("transfer_call", HangupRaises(outcome))
    /\ transfer_pc' = "idle"
    /\ UNCHANGED <<metadata, outbound_trunk_id, dial_info, entry_pc, entry_timer,
                   entry_exc, attempt, mic_iter, monitor_elapsed, create_sip_calls,
                   in_room, disconnected_future, participant, introduction_completed,
                   silence_check_count, last_user_speech_age, is_agent_speaking,
                   user_turn_count, topics_discussed, last_message, is_just_hello,
                   silence_monitor_task, monitor_pc, monitor_timer, hangup_in_progress,
                   goodbye_requests, monitor_hangups, delete_room_calls, end_call_pc,
                   end_call_timer, dam_pc, check_pc, check_timer, first_check_age>>

(***************************************************************************)
(* The advisory tools: hello_trigger and check_if_user_still_there.        *)
(***************************************************************************)

\* hello_trigger: the first call completes the introduction and returns the
\* introduction text, later calls return the instruction to respond
hello_trigger ==
    /\ ToolsCallable
    /\ introduction_completed' = TRUE
    /\ tool_result' = ToolResult("hello_trigger",
                                 IF introduction_completed THEN "respond warmly"
                                 ELSE "introduction")
    /\ UNCHANGED <<metadata, outbound_trunk_id, dial_info, entry_pc, entry_timer,
                   entry_exc, attempt, mic_iter, monitor_elapsed, create_sip_calls,
                   in_room, disconnected_future, room_deleted, participant,
                   silence_check_count, last_user_speech_age, is_agent_speaking,
                   user_turn_count, topics_discussed, last_message, is_just_hello,
                   silence_monitor_task, monitor_pc, monitor_timer, hangup_in_progress,
                   goodbye_requests, monitor_hangups, delete_room_calls, end_call_pc,
                   end_call_timer, dam_pc, transfer_pc, check_pc, check_timer,
                   first_check_age>>

\* the branches of check_if_user_still_there on the incremented counter: the
\* first check-in sleeps, a later one returns the goodbye instruction at once
\* (the caller of the nested invocation then returns its own instruction)
SilenceCheckBranch(count, nested) ==
    IF count = 1
       THEN /\ check_pc' = "wait"
            /\ check_timer' = SECOND_CHECK_WAIT_TIME
            /\ UNCHANGED tool_result
       ELSE /\ check_pc' = "idle"
            /\ UNCHANGED check_timer
            /\ tool_result' = ToolResult("check_if_user_still_there",
                                         IF nested THEN "ask if still there"
                                         ELSE "say goodbye")

\* check_if_user_still_there is invoked: the counter is incremented first
CheckInvoked ==
    /\ ToolsCallable
    /\ silence_check_count < MaxSilenceChecks
    /\ silence_check_count' = silence_check_count + 1
    /\ SilenceCheckBranch(silence_check_count + 1, FALSE)
    /\ UNCHANGED <<metadata, outbound_trunk_id, dial_info, entry_pc, entry_timer,
                   entry_exc, attempt, mic_iter, monitor_elapsed, create_sip_calls,
                   in_room, disconnected_future, room_deleted, participant,
                   introduction_completed, last_user_speech_age, is_agent_speaking,
                   user_turn_count, topics_discussed, last_message, is_just_hello,
                   silence_monitor_task, monitor_pc, monitor_timer, hangup_in_progress,
                   goodbye_requests, monitor_hangups, delete_room_calls, end_call_pc,
                   end_call_timer, dam_pc, transfer_pc, first_check_age>>

\* after the wait of the first check-in: escalate when the silence has lasted
SilenceCheckEscalates ==
    /\ last_user_speech_age # NoTime
    /\ last_user_speech_age > USER_SILENCE_THRESHOLD + SECOND_CHECK_WAIT_TIME

\* the wait of the first check-in is over: the tool invokes itself when the
\* silence has lasted, then returns the instruction to ask
CheckWaitDone ==
    /\ check_pc = "wait"
    /\ check_timer = 0
    /\ IF SilenceCheckEscalates
          THEN /\ silence_check_count' = silence_check_count + 1
               /\ SilenceCheckBranch(silence_check_count + 1, TRUE)
          ELSE /\ check_pc' = "idle"
               /\ tool_result' = ToolResult("check_if_user_still_there",
                                            "ask if still there")
               /\ UNCHANGED <<silence_check_count, check_timer>>
    /\ UNCHANGED <<metadata, outbound_trunk_id, dial_info, entry_pc, entry_timer,
                   entry_exc, attempt, mic_iter, monitor_elapsed, create_sip_calls,
                   in_room, disconnected_future, room_deleted, participant,
                   introduction_completed, last_user_speech_age, is_agent_speaking,
                   user_turn_count, topics_discussed, last_message, is_just_hello,
                   silence_monitor_task, monitor_pc, monitor_timer, hangup_in_progress,
                   goodbye_requests, monitor_hangups, delete_room_calls, end_call_pc,
                   end_call_timer, dam_pc, transfer_pc, first_check_age>>

(***************************************************************************)
(* Time.                                                                   *)
(***************************************************************************)
EntrySleeping ==
    entry_pc \in {"retry_sleep", "track_wait", "mic_wait", "stabilize", "activity_wait"}

MonitorSleeping == MonitorRunning /\ monitor_pc \in {"sleep", "playout_wait"}

EndCallSleeping == end_call_pc = "delay"

CheckSleeping == check_pc = "wait"

\* a sleep that is over and whose task has not run yet
SleepExpired ==
    \/ EntrySleeping /\ entry_timer = 0
    \/ MonitorSleeping /\ monitor_timer = 0
    \/ EndCallSleeping /\ end_call_timer = 0
    \/ CheckSleeping /\ check_timer = 0

CountDown(sleeping, timer) == IF sleeping /\ timer > 0 THEN timer - 1 ELSE timer

\* the job is over and no coroutine waits for the clock
ClockStopped ==
    entry_pc \in {"shutdown", "crashed"} /\ ~EndCallSleeping /\ ~CheckSleeping

\* half a second passes
Tick ==
    /\ ~SleepExpired
    /\ ~ClockStopped
    /\ entry_timer' = CountDown(EntrySleeping, entry_timer)
    /\ monitor_timer' = CountDown(MonitorSleeping, monitor_timer)
    /\ end_call_timer' = CountDown(EndCallSleeping, end_call_timer)
    /\ check_timer' = CountDown(CheckSleeping, check_timer)
    /\ last_user_speech_age' =
          (IF last_user_speech_age = NoTime THEN NoTime
           ELSE Min(last_user_speech_age + 1, MaxAge))
    /\ first_check_age' =
          (IF first_check_age = NoTime \/ silence_check_count # 1 \/ ~MonitorRunning
           THEN NoTime
           ELSE Min(first_check_age + 1, SECOND_CHECK_WAIT_TIME))
    /\ UNCHANGED <<metadata, outbound_trunk_id, dial_info, entry_pc, entry_exc, attempt,
                   mic_iter, monitor_elapsed, create_sip_calls, in_room,
                   disconnected_future, room_deleted, participant, introduction_completed,
                   silence_check_count, is_agent_speaking, user_turn_count,
                   topics_discussed, last_message, is_just_hello, silence_monitor_task,
                   monitor_pc, hangup_in_progress, goodbye_requests, monitor_hangups,
                   delete_room_calls, end_call_pc, dam_pc, transfer_pc, check_pc,
                   tool_result>>

(***************************************************************************)
(* Specifications.                                                         *)
(***************************************************************************)
DialStep ==
    \/ ParseMetadata
    \/ SessionStarted
    \/ ValidateAndDial
    \/ DialSucceeded
    \/ DialFailed
    \/ RetryDial
    \/ Cleanup

GreetStep ==
    \/ WaitForParticipant
    \/ TrackWaitDone
    \/ MicWaitDone
    \/ GreetCheck
    \/ GreetingSucceeded
    \/ GreetingFailed
    \/ FallbackDone
    \/ ActivityWaitDone

LeaveStep ==
    \/ ParticipantDisconnected
    \/ AwaitDisconnectDone
    \/ Cleanup

MonitorStep ==
    \/ MonitorPoll
    \/ MonitorGoodbyeSpoken
    \/ MonitorGoodbyeFailed
    \/ MonitorHangup
    \/ MonitorHangupDone

SpeechStep ==
    \/ on_agent_speech_started
    \/ on_agent_speech_completed

EndCallStep ==
    \/ EndCallInvoked
    \/ EndCallPlayoutDone
    \/ EndCallHangup
    \/ EndCallHangupDone

VoicemailStep ==
    \/ DetectedAnsweringMachine
    \/ DetectedAnsweringMachineDone

TransferStep ==
    \/ TransferInvoked
    \/ TransferNoticeDone
    \/ TransferSucceeded
    \/ TransferFailed
    \/ TransferApologySpoken
    \/ TransferApologyFailed
    \/ TransferHangupDone

ToolStep ==
    \/ EndCallStep
    \/ VoicemailStep
    \/ TransferStep

SilenceCheckStep ==
    \/ CheckInvoked
    \/ CheckWaitDone

\* The whole program on every input.
AllMetadata ==
    {Meta(k, p, t) : k \in MetadataKinds, p \in PhoneNumbers \cup {NoPhone},
                     t \in TransferValues}

Init ==
    /\ InitState
    /\ metadata \in AllMetadata
    /\ outbound_trunk_id \in BOOLEAN

Next ==
    \/ DialStep
    \/ ParticipantJoins
    \/ GreetStep
    \/ LeaveStep
    \/ UserSaysAnything
    \/ SpeechStep
    \/ MonitorStep
    \/ ToolStep
    \/ hello_trigger
    \/ SilenceCheckStep
    \/ Tick

Spec == Init /\ [][Next]_vars

\* The session start: every destination, with and without a configured trunk,
\* the dialer, the greeting, up to the start of the silence monitor.
InitDial ==
    /\ InitState
    /\ metadata \in {Meta("object", p, "set") : p \in PhoneNumbers \cup {NoPhone}}
    /\ outbound_trunk_id \in BOOLEAN

NextDial ==
    \/ DialStep
    \/ ParticipantJoins
    \/ GreetStep
    \/ Tick

SpecDial == InitDial /\ [][NextDial]_vars

\* One outbound call to a valid destination: the dialer, the greeting, the
\* start of the silence monitor, and the voicemail tool as the dialogue
\* generator's way to hang up.
InitOutbound ==
    /\ InitState
    /\ metadata = Meta("object", ValidPhone, "set")
    /\ outbound_trunk_id = TRUE

NextOutbound ==
    \/ DialStep
    \/ GreetStep
    \/ DetectedAnsweringMachine
    \/ DetectedAnsweringMachineDone
    \/ Tick

SpecOutbound == InitOutbound /\ [][NextOutbound]_vars

\* the state in which ctx.wait_for_participant is about to return
AtJoin ==
    /\ entry_pc = "wait_participant"
    /\ entry_timer = 0
    /\ entry_exc = None
    /\ attempt = 0
    /\ mic_iter = 0
    /\ monitor_elapsed = 0
    /\ in_room = TRUE
    /\ disconnected_future = FALSE
    /\ room_deleted = FALSE
    /\ participant = FALSE
    /\ introduction_completed = FALSE
    /\ silence_check_count = 0
    /\ last_user_speech_age = NoTime
    /\ is_agent_speaking = FALSE
    /\ user_turn_count = 0
    /\ topics_discussed = << >>
    /\ last_message = << >>
    /\ is_just_hello = FALSE
    /\ silence_monitor_task = None
    /\ monitor_pc = "idle"
    /\ monitor_timer = 0
    /\ hangup_in_progress = FALSE
    /\ goodbye_requests = 0
    /\ monitor_hangups = 0
    /\ delete_room_calls = 0
    /\ end_call_pc = "idle"
    /\ end_call_timer = 0
    /\ dam_pc = "idle"
    /\ transfer_pc = "idle"
    /\ check_pc = "idle"
    /\ check_timer = 0
    /\ first_check_age = NoTime
    /\ tool_result = [tool |-> None, result |-> None]

\* A session whose callee answered the first dial attempt.
Joined ==
    /\ metadata = Meta("object", ValidPhone, "set")
    /\ outbound_trunk_id = TRUE
    /\ dial_info = [phone_number |-> ValidPhone, transfer_to |-> "set"]
    /\ create_sip_calls = 1
    /\ AtJoin

\* The turn tracker alone: the callee's utterances, any text.
SpecTurn == Joined /\ [][UserSaysAnything]_vars

\* The conversation: greeting, user turns, agent speech, the silence monitor.
NextMonitor ==
    \/ GreetStep
    \/ LeaveStep
    \/ UserSpeaks
    \/ SpeechStep
    \/ MonitorStep
    \/ Tick

SpecMonitor == Joined /\ [][NextMonitor]_vars

\* The silent callee: no user turn, no agent speech event, no tool call.
NextSilent ==
    \/ GreetStep
    \/ LeaveStep
    \/ MonitorStep
    \/ Tick

SpecSilent == Joined /\ [][NextSilent]_vars

\* Termination paths: the monitor and the tools of a silent callee's session,
\* while the callee stays on the line.
NextTeardown ==
    \/ GreetStep
    \/ MonitorStep
    \/ ToolStep
    \/ Tick

SpecTeardown == Joined /\ [][NextTeardown]_vars

\* The end_call tool next to the silence monitor of a silent callee's session.
NextEndCall ==
    \/ GreetStep
    \/ LeaveStep
    \/ MonitorStep
    \/ EndCallStep
    \/ Tick

SpecEndCall == Joined /\ [][NextEndCall]_vars

\* Sessions in which transfer_call can be invoked: a dialled call with a
\* transfer target, a dialled call whose metadata carries an empty
\* transfer_to, and a playground session, which has no metadata.
TransferSessions ==
    {Meta("object", ValidPhone, "set"), Meta("object", ValidPhone, "empty"),
     Meta("absent", NoPhone, "absent")}

JoinedTransfer ==
    /\ metadata \in TransferSessions
    /\ outbound_trunk_id = TRUE
    /\ dial_info = WithTransferDefault(ParsedDialInfo(metadata))
    /\ create_sip_calls = (IF metadata.phone_number = NoPhone THEN 0 ELSE 1)
    /\ AtJoin

NextTransfer ==
    \/ GreetStep
    \/ LeaveStep
    \/ MonitorStep
    \/ TransferStep
    \/ Tick

SpecTransfer == JoinedTransfer /\ [][NextTransfer]_vars

\* the callee's one utterance
FirstUserTurn == user_turn_count = 0 /\ UserSpeaks

\* The escalation: the silence monitor, a callee who speaks once and the
\* check_if_user_still_there tool, while the callee stays on the line.
NextEscalation ==
    \/ GreetStep
    \/ FirstUserTurn
    \/ MonitorStep
    \/ SilenceCheckStep
    \/ Tick

SpecEscalation == Joined /\ [][NextEscalation]_vars

\* The silent callee and the check_if_user_still_there tool.
NextSilenceCheck ==
    \/ GreetStep
    \/ LeaveStep
    \/ MonitorStep
    \/ SilenceCheckStep
    \/ Tick

SpecSilenceCheck == Joined /\ [][NextSilenceCheck]_vars

\* The session start on every class of job metadata, with and without a
\* destination.
InitMetadata ==
    /\ InitState
    /\ metadata \in {Meta(k, p, "absent") : k \in MetadataKinds, p \in {ValidPhone, NoPhone}}
    /\ outbound_trunk_id \in BOOLEAN

SpecMetadata == InitMetadata /\ [][NextDial]_vars

(***************************************************************************)
(* The session start under the scheduling of the event loop: a coroutine   *)
(* that can run does run, the gateway answers every dial request, and time *)
(* passes.  Nothing is assumed of the callee.                              *)
(***************************************************************************)
FairDial ==
    /\ SpecDial
    /\ WF_vars(ParseMetadata \/ SessionStarted \/ ValidateAndDial \/ RetryDial \/ Cleanup)
    /\ WF_vars(DialSucceeded \/ DialFailed)
    /\ WF_vars(Tick)

FairOutbound ==
    /\ SpecOutbound
    /\ WF_vars(ParseMetadata \/ SessionStarted \/ ValidateAndDial \/ RetryDial \/ Cleanup)
    /\ WF_vars(DialSucceeded \/ DialFailed)
    /\ WF_vars(Tick)

\* the destination handed to the job
destination == metadata.phone_number

\* the destination does not start with '+' or has a non-digit after the '+'
Malformed ==
    /\ destination # NoPhone
    /\ \/ Len(destination) = 0
       \/ destination[1] # "+"
       \/ \E i \in 2..Len(destination) : destination[i] \notin Digits

\* '+' followed by digits only
WellFormed ==
    /\ destination # NoPhone
    /\ Len(destination) >= 2
    /\ destination[1] = "+"
    /\ \A i \in 2..Len(destination) : destination[i] \in Digits

BeforeDialing == {"parse", "session_start", "validate"}

Ending == {"cleanup", "shutdown"}

\* C7: a destination that does not start with '+' or has a non-digit after
\* the '+' is never dialed: no create_sip_participant call, the entrypoint
\* never waits for a participant and never greets (it goes from validation
\* straight to its cleanup with a ValueError), and the job reaches shutdown.
C7_FormatRejected ==
    /\ [](Malformed =>
            /\ create_sip_calls = 0
            /\ entry_pc \in BeforeDialing \cup Ending
            /\ entry_pc \in Ending => entry_exc = "ValueError"
            /\ ~in_room /\ ~participant /\ silence_monitor_task = None)
    /\ (Malformed ~> entry_pc = "shutdown")

\* a malformed destination with a configured trunk was refused and the job shut down
C7_Witness ==
    /\ Malformed
    /\ StartsWithPlus(destination)
    /\ outbound_trunk_id
    /\ entry_exc = "ValueError"
    /\ entry_pc = "shutdown"
    /\ create_sip_calls = 0

\* C8: a destination of '+' and digits whose length is below 10 or above 16
\* is refused before any dial attempt: no create_sip_participant call.
C8_LengthRejected ==
    (WellFormed /\ (Len(destination) < 10 \/ Len(destination) > 16))
        => create_sip_calls = 0

\* C9: at most max_retries dial attempts; an attempt is made only while the
\* callee has not answered, from validation or after a retry delay that has
\* run out; an attempt ends with the callee in the room, or with the full
\* retry delay ahead when attempts are left, or with the error propagated
\* after attempt max_retries; the retry delay passes tick by tick.
C9_BoundedRetry ==
    [][ /\ create_sip_calls' <= max_retries
        /\ create_sip_calls' \in {create_sip_calls, create_sip_calls + 1}
        /\ create_sip_calls' # create_sip_calls =>
              /\ ~in_room
              /\ entry_exc = None
              /\ \/ entry_pc = "validate"
                 \/ entry_pc = "retry_sleep" /\ entry_timer = 0
              /\ entry_pc' = "dialing"
        /\ (entry_pc = "dialing" /\ entry_pc' # "dialing") =>
              \/ in_room' /\ entry_pc' = "wait_participant" /\ entry_exc' = None
              \/ /\ create_sip_calls < max_retries
                 /\ entry_pc' = "retry_sleep"
                 /\ entry_timer' = retry_delay
                 /\ entry_exc' = None
              \/ /\ create_sip_calls = max_retries
                 /\ entry_pc' \in Ending
                 /\ entry_exc' = "SipError"
        /\ (entry_pc = "retry_sleep" /\ entry_timer > 0) =>
              /\ entry_pc' = "retry_sleep"
              /\ entry_timer' \in {entry_timer, entry_timer - 1}
        /\ entry_exc = "SipError" => entry_pc' \in Ending
      ]_vars

\* three attempts failed and the error ended the job
C9_Witness ==
    /\ create_sip_calls = max_retries
    /\ entry_exc = "SipError"
    /\ entry_pc = "shutdown"
    /\ ~in_room

\* C10: once the final dial attempt has failed the entrypoint is in its
\* cleanup or shut down: it does not wait for a participant, does not greet,
\* the silence monitor is not started, delete_room is not called, and the
\* job reaches shutdown.
C10_DialFailureTerminal ==
    /\ [](entry_exc = "SipError" =>
            /\ entry_pc \in Ending
            /\ ~participant
            /\ ~introduction_completed
            /\ silence_monitor_task = None
            /\ monitor_pc = "idle"
            /\ delete_room_calls = 0)
    /\ (entry_exc = "SipError" ~> entry_pc = "shutdown")

\* the final failure was handled by the cleanup while nobody was in the room
C10_Witness ==
    /\ entry_exc = "SipError"
    /\ entry_pc = "cleanup"
    /\ create_sip_calls = max_retries
    /\ delete_room_calls = 0

\* C6: a turn after the first, with the introduction done, whose text trimmed
\* and lower-cased is one of the greeting tokens is classified as a bare
\* greeting; a turn leaves a completed introduction completed; the first
\* turn is never classified as a bare greeting.
C6_GreetingLoopPrevention ==
    [][ user_turn_count' # user_turn_count =>
          /\ (/\ introduction_completed'
              /\ user_turn_count' > 1
              /\ Lower(Strip(last_message')) \in hello_patterns) => is_just_hello'
          /\ introduction_completed => introduction_completed'
          /\ user_turn_count' = 1 => ~is_just_hello'
      ]_vars

\* the second turn was " Hi": introduction still done, classified as a bare greeting
C6_Witness ==
    /\ user_turn_count = 2
    /\ last_message = <<" ", "H", "i">>
    /\ introduction_completed
    /\ is_just_hello

\* C3: every completed user turn, at any escalation level and in any state of
\* the session, leaves silence_check_count = 0 and the time of the last user
\* speech equal to the time of the turn (elapsed silence 0).
C3_ResetOnActivity ==
    [][ user_turn_count' # user_turn_count =>
          /\ silence_check_count' = 0
          /\ last_user_speech_age' = 0
      ]_vars

\* a user turn has just arrived after the monitor had reached level 2
C3_Witness ==
    /\ user_turn_count > 0
    /\ goodbye_requests > 0
    /\ silence_check_count = 0
    /\ last_user_speech_age = 0

\* a step of the monitor that runs the loop body after its poll sleep
PollStep ==
    /\ MonitorRunning
    /\ monitor_pc = "sleep"
    /\ monitor_timer = 0
    /\ <<monitor_pc, monitor_timer>>' # <<monitor_pc, monitor_timer>>
    /\ silence_monitor_task' = silence_monitor_task

\* C4: a poll that finds is_agent_speaking true changes no field of the
\* session, requests no goodbye and invokes no hangup, whatever the elapsed
\* silence is; the monitor goes back to its poll sleep.
C4_SpeakingSuppression ==
    [][ (PollStep /\ is_agent_speaking) =>
          /\ UNCHANGED <<participant, introduction_completed, silence_check_count,
                         last_user_speech_age, is_agent_speaking, user_turn_count,
                         topics_discussed, dial_info>>
          /\ UNCHANGED <<goodbye_requests, monitor_hangups, delete_room_calls,
                         hangup_in_progress>>
          /\ monitor_pc' = "sleep"
      ]_vars

\* the agent speaks, the silence is beyond every threshold, and the monitor,
\* which had made its first check-in, is back in its poll sleep without a
\* goodbye or a hangup
C4_Witness ==
    /\ is_agent_speaking
    /\ introduction_completed
    /\ MonitorRunning
    /\ last_user_speech_age > EMERGENCY_SILENCE
    /\ silence_check_count = 1
    /\ monitor_pc = "sleep"
    /\ monitor_timer = SILENCE_CHECK_INTERVAL
    /\ goodbye_requests = 0
    /\ delete_room_calls = 0

\* the call is over: the room is deleted or the callee has left
Terminated == room_deleted \/ ~in_room

\* C19: once the call is over, the late events leave the conversation state
\* alone: no user turn is counted and no topic added, the speaking flag does
\* not change, and a poll of the monitor changes neither the silence level nor
\* the introduction flag nor the time of the last user speech.
C19_NoLateMutation ==
    [][Terminated =>
          /\ user_turn_count' = user_turn_count
          /\ topics_discussed' = topics_discussed
          /\ is_agent_speaking' = is_agent_speaking
          /\ PollStep =>
                /\ silence_check_count' = silence_check_count
                /\ introduction_completed' = introduction_completed
                /\ last_user_speech_age' >= last_user_speech_age]_vars

(***************************************************************************)
(* The silent callee under the scheduling of the event loop: a coroutine   *)
(* that can run does run, the dialogue generator, the audio output and the *)
(* gateway answer every request (with a result or an error), and time      *)
(* passes.  Nothing is assumed of the callee, who may stay on the line.     *)
(***************************************************************************)
FairSilent ==
    /\ SpecSilent
    /\ WF_vars(GreetStep)
    /\ WF_vars(MonitorStep)
    /\ WF_vars(AwaitDisconnectDone \/ Cleanup)
    /\ WF_vars(Tick)

\* a step in which the running monitor moves on from position pc
MonitorLeaves(pc) ==
    /\ MonitorRunning
    /\ monitor_pc = pc
    /\ monitor_pc' # pc
    /\ silence_monitor_task' = silence_monitor_task

\* C2: with the introduction done, the agent silent, no user turn and no
\* tool call, the level goes 0 -> 1 at the first poll with more than 15 s of
\* silence and 1 -> 2 at the first later poll with more than 25 s; it never
\* decreases and never skips 1; after level 2 the goodbye generation is
\* followed by the 2 s playout wait and then by the one delete_room call.
C2_SilenceEscalation ==
    [][ /\ silence_check_count' \in {silence_check_count, silence_check_count + 1}
        /\ silence_check_count' # silence_check_count =>
              /\ MonitorRunning /\ monitor_pc = "sleep" /\ monitor_timer = 0
              /\ introduction_completed
              /\ silence_check_count = 0 =>
                    last_user_speech_age > USER_SILENCE_THRESHOLD
              /\ silence_check_count = 1 =>
                    /\ last_user_speech_age >
                          USER_SILENCE_THRESHOLD + SECOND_CHECK_WAIT_TIME
                    /\ goodbye_requests' = goodbye_requests + 1
        /\ (PollStep /\ introduction_completed /\ ~hangup_in_progress) =>
              /\ (/\ silence_check_count = 0
                  /\ last_user_speech_age > USER_SILENCE_THRESHOLD)
                    => silence_check_count' = 1
              /\ (/\ silence_check_count = 1
                  /\ last_user_speech_age >
                        USER_SILENCE_THRESHOLD + SECOND_CHECK_WAIT_TIME)
                    => silence_check_count' = 2
        /\ MonitorLeaves("goodbye") =>
              /\ monitor_pc' = "playout_wait"
              /\ monitor_timer' = GOODBYE_PLAYOUT_WAIT
        /\ MonitorLeaves("playout_wait") =>
              /\ monitor_timer = 0
              /\ delete_room_calls' = delete_room_calls + 1
        /\ delete_room_calls' <= 1
      ]_vars

\* C5: once the participant has joined and the user has been silent for more
\* than 180 s, a delete_room call is eventually issued (or the callee has
\* left), whatever the level, the introduction flag and the outcomes of the
\* greeting and of the goodbye were.
C5_EmergencyFailsafe ==
    (participant /\ in_room /\ last_user_speech_age > EMERGENCY_SILENCE)
        ~> (delete_room_calls > 0 \/ ~in_room)

\* the callee is in the room and the room is up
CallLive == in_room /\ ~room_deleted

\* C18: the monitor's termination guard is not left set, and the monitor has
\* not exited, once its hangup() has returned and the call is still live, as
\* it is after a delete_room that failed with an error.
C18_NoWedgedGuard ==
    (CallLive /\ monitor_pc # "deleting") =>
        (~hangup_in_progress /\ monitor_pc # "done")

\* C20: when the callee leaves, in whatever phase after the join (after
\* ctx.wait_for_participant has returned), the entrypoint eventually reaches
\* ctx.shutdown() and the silence monitor, if it was started, is no longer
\* running.
C20_DisconnectEndsSession ==
    (~in_room /\ entry_pc # "wait_participant")
        ~> (entry_pc = "shutdown" /\ silence_monitor_task # "running")

\* C1: however the termination paths of one session interleave (the monitor's
\* level-2 path, its emergency path, end_call, detected_answering_machine,
\* the failure branch of transfer_call), delete_room is called once in total.
C1_IdempotentTermination == delete_room_calls <= 1

(***************************************************************************)
(* Claims about the tools: end_call, transfer_call and                     *)
(* detected_answering_machine.                                             *)
(***************************************************************************)
\* end_call issues its delete_room
EndCallDeletes == end_call_pc # "deleting" /\ end_call_pc' = "deleting"

\* end_call starts its delay
EndCallDelays == end_call_pc # "delay" /\ end_call_pc' = "delay"

\* C11: end_call requests delete_room only when its 4 s delay has run out, the
\* delay starts, in full, only when the playout wait is over, and the end of
\* the playout wait, whether it returned or failed, always starts the delay,
\* which in turn ends only in the delete_room request.
C11_EndCallOrdering ==
    [][/\ EndCallDeletes =>
            /\ end_call_pc = "delay"
            /\ end_call_timer = 0
            /\ delete_room_calls' = delete_room_calls + 1
       /\ EndCallDelays =>
            /\ end_call_pc = "playout"
            /\ end_call_timer' = END_CALL_DELAY
       /\ end_call_pc = "playout" => end_call_pc' \in {"playout", "delay"}
       /\ end_call_pc = "delay" =>
            /\ end_call_pc' \in {"delay", "deleting"}
            /\ end_call_timer' \in {end_call_timer, end_call_timer - 1}]_vars

\* end_call has waited, slept and received the gateway's answer
C11_Witness ==
    /\ tool_result = ToolResult("end_call", None)
    /\ delete_room_calls = 1
    /\ end_call_pc = "idle"

\* delete_room requests issued by end_call, where the monitor is the only other
\* caller of hangup()
EndCallRequests == delete_room_calls - monitor_hangups

\* C12: end_call is idempotent: tool invocations run one after the other, so a
\* second delete_room request of end_call comes from an invocation made after
\* an earlier end_call has terminated the call, and there is none.
C12_EndCallIdempotent == EndCallRequests <= 1

\* transfer_call issues its delete_room
TransferDeletes == transfer_pc # "deleting" /\ transfer_pc' = "deleting"

\* C13: when the transfer request has gone through, transfer_call returns
\* without a delete_room request: the tool leaves the transfer request either
\* for its end, with the call count of delete_room unchanged, or for the
\* apology of the failure branch, and only the apology leads to hangup().
C13_TransferSuccessKeepsCall ==
    [][/\ (transfer_pc = "transferring" /\ transfer_pc' # "transferring") =>
            /\ transfer_pc' \in {"idle", "apology"}
            /\ delete_room_calls' = delete_room_calls
       /\ (transfer_pc = "transferring" /\ transfer_pc' = "idle") =>
            tool_result' = ToolResult("transfer_call", None)
       /\ TransferDeletes => transfer_pc = "apology"]_vars

\* a transfer went through and nobody has asked for the room's deletion
C13_Witness ==
    /\ tool_result = ToolResult("transfer_call", None)
    /\ transfer_pc = "idle"
    /\ delete_room_calls = 0
    /\ ~room_deleted

\* C14: a transfer_call that does not transfer ends the call: the notice is
\* followed by the transfer request or by the failure branch, and the failure
\* branch, entered with the request for the apology, is only left into
\* hangup() and its delete_room request, also when the dialogue generator
\* fails.
C14_TransferFailureHangsUp ==
    [][/\ (transfer_pc = "notice" /\ transfer_pc' # "notice") =>
            transfer_pc' \in {"transferring", "apology"}
       /\ (transfer_pc = "apology" /\ transfer_pc' # "apology") =>
            /\ transfer_pc' = "deleting"
            /\ delete_room_calls' = delete_room_calls + 1]_vars

\* C15: in a session without a transfer target, transfer_to empty or absent,
\* transfer_call never gets to its notice, its transfer request or its
\* hangup(), so that every delete_room request is the monitor's, and every
\* invocation returns "cannot transfer call" instead of raising.
C15_TransferNeedsTarget ==
    dial_info.transfer_to # "set" =>
        /\ transfer_pc = "idle"
        /\ delete_room_calls = monitor_hangups
        /\ tool_result.tool = "transfer_call" =>
              tool_result.result = "cannot transfer call"

\* detected_answering_machine is invoked: it starts its hangup() or ends at once
VoicemailInvoked == dam_pc = "idle" /\ (dam_pc' # "idle" \/ tool_result' # tool_result)

\* C16: every invocation of detected_answering_machine, whatever the state of
\* the session, goes straight to hangup() and its delete_room request, without
\* a goodbye and without a wait.
C16_VoicemailHangsUp ==
    [][VoicemailInvoked =>
          /\ dam_pc' = "deleting"
          /\ delete_room_calls' = delete_room_calls + 1
          /\ goodbye_requests' = goodbye_requests
          /\ last_user_speech_age' = last_user_speech_age]_vars

\* the gateway's answer reaches the hangup() that end_call awaits
EndCallHangupReturns == end_call_pc = "deleting" /\ end_call_pc' # "deleting"

\* the gateway's answer reaches the hangup() that the monitor awaits
MonitorHangupReturns == monitor_pc = "deleting" /\ monitor_pc' \notin {"deleting", "cancelled"}

\* C17: an invocation of hangup(), by end_call or by the monitor, requests
\* delete_room once, when it starts, and whatever the gateway answers (done,
\* not found, another error) it returns to its caller without an exception
\* and without a second request: end_call ends normally, the monitor breaks
\* out of its loop.
C17_TeardownOutcomes ==
    [][/\ delete_room_calls' # delete_room_calls =>
            /\ delete_room_calls' = delete_room_calls + 1
            /\ \/ EndCallDeletes
               \/ monitor_pc # "deleting" /\ monitor_pc' = "deleting"
       /\ EndCallHangupReturns =>
            /\ end_call_pc' = "idle"
            /\ tool_result' = ToolResult("end_call", None)
            /\ delete_room_calls' = delete_room_calls
       /\ MonitorHangupReturns =>
            /\ monitor_pc' = "done"
            /\ delete_room_calls' = delete_room_calls]_vars

\* the gateway has answered a delete_room request with an error, the room is
\* still up, and the caller of hangup() has returned normally
C17_Witness ==
    /\ tool_result = ToolResult("end_call", None)
    /\ end_call_pc = "idle"
    /\ delete_room_calls = 1
    /\ monitor_hangups = 0
    /\ ~room_deleted

(***************************************************************************)
(* Claims about the monitor's task, the session start and the escalation.  *)
(***************************************************************************)
\* the monitor task is cancelled
MonitorCancelled == silence_monitor_task = "running" /\ silence_monitor_task' = "cancelled"

\* C21: the cancellation of the monitor task, in its poll sleep or at any other
\* await, ends the task without a change of silence_check_count, without a
\* goodbye request and without a hangup() or delete_room request, and the
\* cancelled task does nothing afterwards.
C21_CooperativeCancellation ==
    [][/\ MonitorCancelled =>
            /\ monitor_pc' = "cancelled"
            /\ silence_check_count' = silence_check_count
            /\ goodbye_requests' = goodbye_requests
            /\ monitor_hangups' = monitor_hangups
            /\ delete_room_calls' = delete_room_calls
       /\ silence_monitor_task = "cancelled" =>
            /\ silence_monitor_task' = "cancelled"
            /\ monitor_pc' = "cancelled"
            /\ silence_check_count' = silence_check_count
            /\ goodbye_requests' = goodbye_requests
            /\ monitor_hangups' = monitor_hangups
            /\ delete_room_calls' = delete_room_calls]_vars

\* the monitor was cancelled in its poll sleep after the first check
C21_Witness ==
    /\ silence_monitor_task = "cancelled"
    /\ monitor_pc = "cancelled"
    /\ silence_check_count = 1
    /\ delete_room_calls = 0

\* C22: the monitor task invokes hangup() at most once in its lifetime, also
\* when the goodbye generation raises, when a user turn or an invocation of
\* check_if_user_still_there comes between its awaits, and when delete_room
\* fails.
C22_MonitorHangsUpOnce == monitor_hangups <= 1

\* the monitor has hung up once, after a user turn and a silence check of the
\* tool, the gateway has answered with an error and the task has ended
C22_Witness ==
    /\ monitor_hangups = 1
    /\ monitor_pc = "done"
    /\ ~room_deleted
    /\ user_turn_count = 1
    /\ tool_result.tool = "check_if_user_still_there"

\* C23: when the metadata carries no destination, no create_sip_participant
\* call is made, no check of the destination or of the trunk raises, and the
\* entrypoint goes from the session start straight to its wait for a
\* participant, whoever joins.
C23_NonTelephonyMode ==
    /\ [](destination = NoPhone =>
            /\ create_sip_calls = 0
            /\ entry_exc = None
            /\ entry_pc \notin {"dialing", "retry_sleep", "cleanup", "crashed"})
    /\ [][(destination = NoPhone /\ entry_pc = "validate") =>
            entry_pc' \in {"validate", "wait_participant"}]_vars

\* a playground session whose participant joined and was greeted
C23_Witness ==
    /\ destination = NoPhone
    /\ create_sip_calls = 0
    /\ participant
    /\ entry_pc = "await_disconnect"

\* C24: whatever the class of the job metadata (absent, a JSON object, text
\* that the repair turns into an object, text that stays unparsable, JSON that
\* is not an object), the entrypoint does not end with an unhandled error
\* before the session start and goes on with the parsed object or with the
\* empty configuration.
C24_MetadataNeverCrashes ==
    /\ entry_pc # "crashed"
    /\ entry_pc # "parse" =>
          dial_info \in {WithTransferDefault(ParsedDialInfo(metadata)), EmptyDialInfo}

\* order of the positions of the entrypoint from the join on
EntryRank(pc) ==
    CASE pc = "wait_participant" -> 0
      [] pc = "track_wait" -> 1
      [] pc = "mic_wait" -> 2
      [] pc = "stabilize" -> 3
      [] pc = "greeting" -> 4
      [] pc = "fallback" -> 5
      [] pc = "activity_wait" -> 6
      [] pc = "await_disconnect" -> 7
      [] OTHER -> 8

\* C25: the entrypoint issues the generate_reply greeting at most once (its
\* positions are passed in order, none is entered again), speaks the
\* session.say fallback only after that generate_reply failed, at most once,
\* and whether the fallback succeeds or fails it goes on to the activity
\* wait, which ends within max_monitor by starting the silence monitor and
\* waiting for the disconnect.
C25_GreetingAttempts ==
    /\ [][/\ EntryRank(entry_pc') >= EntryRank(entry_pc)
          /\ (entry_pc' = "greeting" /\ entry_pc # "greeting") => entry_pc = "stabilize"
          /\ (entry_pc' = "fallback" /\ entry_pc # "fallback") => entry_pc = "greeting"
          /\ (entry_pc = "fallback" /\ entry_pc' # "fallback") =>
                entry_pc' = "activity_wait"
          /\ (entry_pc = "activity_wait" /\ entry_pc' # "activity_wait") =>
                /\ entry_pc' = "await_disconnect"
                /\ silence_monitor_task' = "running"]_vars
    /\ [](entry_pc = "activity_wait" =>
            monitor_elapsed < max_monitor /\ entry_timer <= monitor_interval)

\* both greeting attempts failed and nobody spoke: the monitor runs and the
\* entrypoint waits for the disconnect
C25_Witness ==
    /\ entry_pc = "await_disconnect"
    /\ silence_monitor_task = "running"
    /\ ~introduction_completed
    /\ user_turn_count = 0

\* C26: introduction_completed never goes from true back to false, so that it
\* becomes true at most once in a session, over user turns, the join of the
\* participant and the success or failure of the greeting.
C26_IntroductionSetOnce ==
    [][introduction_completed => introduction_completed']_vars

\* C27: in every reachable state silence_check_count is 0, 1 or 2, over any
\* interleaving of monitor polls, user turns and invocations of
\* check_if_user_still_there.
C27_EscalationLevelRange == silence_check_count \in {0, 1, 2}

\* a poll that is not skipped, for a callee who never spoke, after the first
\* check, with the silence above the second threshold and no goodbye yet
SecondCheckExpected ==
    /\ PollStep
    /\ ~MonitorSkips
    /\ user_turn_count = 0
    /\ silence_check_count >= 1
    /\ goodbye_requests = 0
    /\ user_silence_duration > USER_SILENCE_THRESHOLD + SECOND_CHECK_WAIT_TIME

\* C28: an invocation of check_if_user_still_there does not keep the monitor
\* from its second check: for a callee who stays silent, also after the tool
\* was invoked, the poll that finds the silence above USER_SILENCE_THRESHOLD +
\* SECOND_CHECK_WAIT_TIME after the first check dispatches the goodbye that
\* precedes the hangup, instead of leaving the call to the 180 s emergency.
C28_MonitorAuthoritative ==
    [][SecondCheckExpected =>
          /\ goodbye_requests' = goodbye_requests + 1
          /\ monitor_pc' = "goodbye"]_vars

\* a poll during a live call with the introduction done, the agent silent, no
\* hangup in progress and more than 180 s of silence
EmergencyPoll ==
    /\ PollStep
    /\ CallLive
    /\ ~MonitorSkips
    /\ user_silence_duration > EMERGENCY_SILENCE

\* C29: at a poll that finds more than 180 s of silence (introduction done,
\* agent not speaking, no hangup in progress) the monitor invokes hangup() in
\* that poll, whatever the silence level 0, 1 or 2 is, without requesting a
\* goodbye and without the playout wait.
C29_EmergencyBypassesGoodbye ==
    [][(EmergencyPoll /\ silence_check_count \in {0, 1, 2}) =>
          /\ monitor_hangups' = monitor_hangups + 1
          /\ goodbye_requests' = goodbye_requests
          /\ monitor_pc' = "deleting"]_vars

\* the monitor is between the dispatch of its goodbye and its hangup
EscalationInFlight == MonitorRunning /\ monitor_pc \in {"goodbye", "playout_wait"}

\* C30: a user turn that arrives while the goodbye is generated or during the
\* playout wait resets silence_check_count to 0 and the time of the last user
\* speech and leaves the monitor where it is; when the playout wait is over
\* the monitor invokes hangup() whatever the level then is.
C30_EscalationCompletes ==
    [][/\ (EscalationInFlight /\ user_turn_count' # user_turn_count) =>
             /\ silence_check_count' = 0
             /\ last_user_speech_age' = 0
             /\ UNCHANGED <<silence_monitor_task, monitor_pc, monitor_timer,
                            goodbye_requests, hangup_in_progress>>
       /\ MonitorLeaves("playout_wait") =>
             /\ monitor_pc' = "deleting"
             /\ monitor_hangups' = monitor_hangups + 1]_vars

\* the monitor has hung up right after a user turn that came during the
\* playout wait
C30_Witness ==
    /\ monitor_pc = "deleting"
    /\ goodbye_requests = 1
    /\ monitor_hangups = 1
    /\ user_turn_count = 1
    /\ silence_check_count = 0
    /\ last_user_speech_age # NoTime
    /\ last_user_speech_age < GOODBYE_PLAYOUT_WAIT

\* C31: once the monitor has set the level to 2 and requested the goodbye,
\* the end of the goodbye generation, successful or failed, leads on to the
\* playout wait or to hangup(); the monitor does not go back to polling with
\* the call live and no delete_room issued.
C31_LevelTwoTearsDown ==
    [][MonitorLeaves("goodbye") => monitor_pc' \in {"playout_wait", "deleting"}]_vars

\* the participant has joined and the entrypoint is at or past its greeting
Introducing == entry_pc \in {"greeting", "fallback", "activity_wait", "await_disconnect"}

\* C32: from the attempt of the greeting on, the time of the last user speech
\* is seeded and the silence monitor task has been started: the monitor runs
\* while the greeting generation is pending.
C32_MonitorStartsAtJoin ==
    Introducing => (last_user_speech_age # NoTime /\ silence_monitor_task # None)

\* C33: once a teardown has completed (the room is deleted), by whichever
\* path, the silence monitor does nothing more: its polls leave
\* silence_check_count alone, no goodbye is requested and hangup() is not
\* invoked.
C33_MonitorStopsWhenTerminated ==
    [][room_deleted =>
          /\ goodbye_requests' = goodbye_requests
          /\ monitor_hangups' = monitor_hangups
          /\ PollStep => silence_check_count' = silence_check_count]_vars

\* C34: a turn is classified as a bare greeting only when its text, trimmed
\* and lower-cased, is exactly one greeting token; a greeting token followed
\* by other words, or other words ending in a greeting token, is not.
C34_BareGreetingOnly ==
    [][(user_turn_count' # user_turn_count /\ is_just_hello') =>
          Lower(Strip(last_message')) \in hello_patterns]_vars

\* C35: in every state in which the user has completed a turn the
\* introduction is completed, also when the first turn came before the
\* entrypoint initialised the state of the agent.
C35_FirstTurnCompletesIntroduction ==
    user_turn_count >= 1 => introduction_completed

\* C36: when the monitor invokes hangup() at the end of its playout wait, the
\* agent is not speaking: the goodbye has finished playing.
C36_NoHangupOverSpeech ==
    [][(MonitorLeaves("playout_wait") /\ monitor_pc' = "deleting") =>
          ~is_agent_speaking]_vars

\* C37: a poll that finds introduction_completed false changes no field of
\* the session, requests no goodbye and invokes no hangup, whatever the
\* elapsed silence is; the monitor goes back to its poll sleep.
C37_NoEscalationBeforeIntroduction ==
    [][(PollStep /\ ~introduction_completed) =>
          /\ UNCHANGED <<participant, introduction_completed, silence_check_count,
                         last_user_speech_age, is_agent_speaking, user_turn_count,
                         topics_discussed, dial_info>>
          /\ UNCHANGED <<goodbye_requests, monitor_hangups, delete_room_calls,
                         hangup_in_progress>>
          /\ monitor_pc' = "sleep"]_vars

\* both greetings failed, nobody spoke, the silence is beyond every threshold
\* and the monitor, which has been polling all along, is at level 0 in its
\* poll sleep without a goodbye or a hangup
C37_Witness ==
    /\ ~introduction_completed
    /\ MonitorRunning
    /\ in_room
    /\ last_user_speech_age > EMERGENCY_SILENCE
    /\ silence_check_count = 0
    /\ monitor_pc = "sleep"
    /\ monitor_timer = SILENCE_CHECK_INTERVAL
    /\ goodbye_requests = 0
    /\ delete_room_calls = 0

\* C38: after a user turn, a poll of the monitor raises the level only when
\* more than USER_SILENCE_THRESHOLD has passed since the latest turn, and it
\* requests the goodbye or invokes hangup() only when more than
\* USER_SILENCE_THRESHOLD + SECOND_CHECK_WAIT_TIME has passed since it,
\* whatever the level before the turn was.
C38_EscalationRestartsFromTurn ==
    [][(PollStep /\ user_turn_count >= 1) =>
          /\ silence_check_count' # silence_check_count =>
                user_silence_duration > USER_SILENCE_THRESHOLD
          /\ (goodbye_requests' # goodbye_requests \/ monitor_hangups' # monitor_hangups) =>
                user_silence_duration > USER_SILENCE_THRESHOLD + SECOND_CHECK_WAIT_TIME]_vars

\* after two user turns the monitor has gone through both levels again and
\* requested the goodbye
C38_Witness ==
    /\ user_turn_count = 2
    /\ silence_check_count = 2
    /\ goodbye_requests = 1
    /\ monitor_pc = "goodbye"
    /\ last_user_speech_age > USER_SILENCE_THRESHOLD + SECOND_CHECK_WAIT_TIME

\* C39: when a poll of the monitor moves the level from 1 to 2, at least
\* SECOND_CHECK_WAIT_TIME has passed since the poll that moved it from 0 to 1.
C39_GracePeriod ==
    [][(PollStep /\ silence_check_count = 1 /\ silence_check_count' = 2
          /\ first_check_age # NoTime) =>
          first_check_age >= SECOND_CHECK_WAIT_TIME]_vars

\* s is a prefix of t
IsPrefix(s, t) == Len(s) <= Len(t) /\ SubSeq(t, 1, Len(s)) = s

\* no element of s occurs twice
NoDuplicates(s) == \A i, j \in 1..Len(s) : s[i] = s[j] => i = j

\* C40: a user turn only appends to topics_discussed (what was recorded stays,
\* in its order), no topic is recorded twice, and a topic is added only when
\* the text of the turn, lower-cased, contains one of its keywords.
C40_TopicsAppendOnly ==
    /\ [](NoDuplicates(topics_discussed))
    /\ [][/\ IsPrefix(topics_discussed, topics_discussed')
          /\ \A k \in (Len(topics_discussed) + 1)..Len(topics_discussed') :
                \E keyword \in topics_keywords[topics_discussed'[k]] :
                    Contains(Lower(last_message'), keyword)]_vars

\* a first turn about fees and a second about jobs and fees: the second added
\* placement after pricing and did not record pricing again
C40_Witness ==
    /\ user_turn_count = 2
    /\ topics_discussed = <<"pricing", "placement">>
    /\ last_message = <<"j", "o", "b", " ", "f", "e", "e">>

====
